---------------------------- MODULE Spec2Model ----------------------------
(***************************************************************************)
(* Result decoding and report rendering of the Quantum Krump platform.     *)
(*                                                                         *)
(* Several state machines share this module:                               *)
(*   SpecDecode    the measurement decoder (krump-decoder) and its callers *)
(*   SpecEscape    the XML escaping helpers of the SVG generators          *)
(*   SpecRender    one run of an SVG generator: asset fetches, then the    *)
(*                 emission of the document                                *)
(*   SpecDownload  a download handler of the user interface and the        *)
(*                 generator it calls                                      *)
(*   SpecRerun     a generator called twice with the same arguments        *)
(*   SpecLayout    the geometry a generator computes for a report          *)
(*   SpecRelay     one invocation of the function execute-quantum-circuit  *)
(*   SpecPoll      the Dashboard submitting a job and polling its status   *)
(*   SpecStream    streamChat reading the event stream of the assistant    *)
(*   SpecQueue     downloads started from the job queue                    *)
(*                                                                         *)
(* Numbers: a probability p is held as the integer p * ProbUnit, and an    *)
(* average energy e as e * ProbUnit.  A JavaScript number that may be NaN  *)
(* is held as a record [nan |-> BOOLEAN, value |-> Int].                   *)
(* Text: a string that is escaped is held as a sequence of one-character   *)
(* strings.                                                                *)
(***************************************************************************)
EXTENDS Integers, Sequences, FiniteSets, TLC

VARIABLES
    \* ---- decoder -------------------------------------------------------
    measurements,     \* results.measurements: entries <<key, count>> in insertion order
    probabilities,    \* results.probabilities: function from some keys to a probability
    shots,            \* results.shots
    decodedMoves,     \* the value returned by decodeKrumpResults
    suggestedRoutine, \* the value returned by getSuggestedRoutine
    topN,             \* the argument topN of the last getSuggestedRoutine call
    averageEnergy,    \* the average energy as each call site computes it
    phase,            \* position of the decoding caller
    movesTable,       \* the object KRUMP_MOVES as it is in memory
    \* ---- escaping ------------------------------------------------------
    text,             \* the string handed to an escaping helper
    escaped,          \* the string it returned
    escaper,          \* which helper ran
    \* ---- one run of an SVG generator -----------------------------------
    variant,          \* which generator runs
    freeText,         \* the free text of the job (circuit name, backend, prompt, ...)
    genPc,            \* position of the generator
    assetIndex,       \* the branding image being converted (1-based)
    response,         \* the Response of the current fetch
    embedded,         \* the data URLs obtained so far
    failedAssets,     \* the assets whose fetch or encoding has failed
    document,         \* the returned document
    \* ---- a download handler of the user interface ----------------------
    handler,          \* which handler runs
    handlerPc,        \* position of the handler
    svg,              \* the value the handler holds in its constant svg
    downloaded,       \* the content of the file handed to the browser
    toast,            \* the toast shown to the user
    \* ---- layout of a report ---------------------------------------------
    layoutVariant,    \* which generator lays out
    chart,            \* chartData / decodedMoves: one [count, probability] per outcome
    rawLineCount,     \* rawDataLines.length
    layout,           \* the geometry written into the document
    codeLines,        \* highlightedLines.length of a circuit portrait
    metadata,         \* whether metadata.prompt and metadata.category are given
    \* ---- the execute-quantum-circuit function --------------------------
    serviceUrl,       \* whether QUANTUM_SERVICE_URL is set
    requestShots,     \* shots of the request body
    job,              \* the row of quantum_jobs created by the invocation
    relayPc,          \* position of the handler
    candidateIndex,   \* the endpoint candidate being tried (1-based)
    attemptedEndpoints, \* the failed attempts recorded so far
    timers,           \* the timers that are armed
    serviceCalls,     \* the requests the external service received, with their outcome
    serviceData,      \* the body of the ok response of the service
    reply,            \* the Response returned by the handler
    \* ---- a generator called again on the same input --------------------
    runs,             \* how many calls have been started
    previous,         \* the document the first call returned
    \* ---- the Dashboard: execution of a circuit and polling ---------------
    executing,        \* the state executing
    pollingJobId,     \* the state pollingJobId
    dashPc,           \* position of handleExecute / poll
    elapsed,          \* Date.now() - startTime, in milliseconds
    rowStatus,        \* quantum_jobs.status of the submitted job
    pollTimer,        \* whether a setTimeout(poll, pollInterval) is pending
    dashToast,        \* the title of the last toast
    submissions,      \* how many jobs have been submitted
    \* ---- streamChat ----------------------------------------------------
    sseLines,         \* the lines of the response body
    sseTerminated,    \* whether the last line ends with a newline
    readPos,          \* how much of the body the reader has returned
    textBuffer,       \* the variable textBuffer
    deltas,           \* the texts passed to onDelta, in order
    streamPc,         \* position of streamChat
    isStreaming,      \* the state isStreaming
    \* ---- the job queue ---------------------------------------------------
    downloadingJobId, \* the state downloadingJobId
    inFlight,         \* per job, the calls of handleDownloadJob that have not finished
    queueToast        \* the title of the last toast

decodeVars == <<measurements, probabilities, shots, decodedMoves,
                suggestedRoutine, topN, averageEnergy, phase, movesTable>>

escapeVars == <<text, escaped, escaper>>

renderVars == <<variant, freeText, genPc, assetIndex, response, embedded,
                failedAssets, document>>

downloadVars == <<handler, handlerPc, svg, downloaded, toast>>

layoutVars == <<layoutVariant, chart, rawLineCount, layout, codeLines, metadata>>

relayVars == <<serviceUrl, requestShots, job, relayPc, candidateIndex, attemptedEndpoints,
               timers, serviceCalls, serviceData, reply>>

rerunVars == <<runs, previous>>

pollVars == <<executing, pollingJobId, dashPc, elapsed, rowStatus, pollTimer, dashToast,
              submissions>>

streamVars == <<sseLines, sseTerminated, readPos, textBuffer, deltas, streamPc, isStreaming>>

queueVars == <<downloadingJobId, inFlight, queueToast>>

vars == <<decodeVars, escapeVars, renderVars, downloadVars, layoutVars, relayVars, rerunVars,
          pollVars, streamVars, queueVars>>

-----------------------------------------------------------------------------
(* Bounds of the model *)

MaxEntries == 3   \* keys of a freely chosen measurement map
MaxCount == 1     \* largest count of a freely chosen entry
MaxProb == 2      \* largest probability of an entry, in units of 1/ProbUnit
ProbUnit == 2     \* the integer that stands for probability 1.0
MaxShots == 2     \* largest value of results.shots
MaxTopN == 4      \* largest topN passed to getSuggestedRoutine
MaxTextLen == 3   \* pieces of a string handed to an escaping helper
MaxFreeTextLen == 1     \* pieces of the free text of a rendered job
MaxRenderEntries == 2   \* keys of the measurement map of a rendered job
MaxOutcomes == 3  \* outcomes of a report that is laid out
MaxRawLines == 52 \* lines of the raw-data JSON of a report that is laid out
MaxRequestShots == 2  \* largest small value of shots in a request
MaxServiceShots == 2  \* shots in a response of the quantum service
WideQubits == 11      \* measured qubits of a wide register
MaxCodeLines == 19    \* lines of the code of a circuit portrait
MaxLatencySeconds == 1  \* longest time a status query takes, in seconds
MaxSubmissions == 2   \* jobs submitted from the Dashboard
MaxSseLines == 3      \* lines of the body of an event stream
MaxQueueJobs == 3     \* completed jobs shown in the job queue
MaxInFlight == 2      \* unfinished downloads of one job

-----------------------------------------------------------------------------
(* krump-decoder: the static lookup table *)

KRUMP_MOVES ==
    [k \in {"000", "001", "010", "011", "100", "101", "110", "111"} |->
        CASE k = "000" -> [bitstring |-> "000", name |-> "The Stillness",
                           description |-> "Neutral stance, ready to move",
                           energy |-> 0, emoji |-> "U+1F574",
                           components |-> [jabStomp |-> FALSE, armSwing |-> FALSE, chestPop |-> FALSE]]
          [] k = "001" -> [bitstring |-> "001", name |-> "Chest Pop",
                           description |-> "Sharp chest isolation, controlled power",
                           energy |-> 1, emoji |-> "U+1F4A2",
                           components |-> [jabStomp |-> FALSE, armSwing |-> FALSE, chestPop |-> TRUE]]
          [] k = "010" -> [bitstring |-> "010", name |-> "Arm Swing",
                           description |-> "Dynamic arm motion, expressing emotion",
                           energy |-> 1, emoji |-> "U+1F64C",
                           components |-> [jabStomp |-> FALSE, armSwing |-> TRUE, chestPop |-> FALSE]]
          [] k = "011" -> [bitstring |-> "011", name |-> "Upper Body Flow",
                           description |-> "Swing and pop combined, fluid movement",
                           energy |-> 2, emoji |-> "U+1F938",
                           components |-> [jabStomp |-> FALSE, armSwing |-> TRUE, chestPop |-> TRUE]]
          [] k = "100" -> [bitstring |-> "100", name |-> "Stomp",
                           description |-> "Ground connection, powerful foundation",
                           energy |-> 1, emoji |-> "U+1F45F",
                           components |-> [jabStomp |-> TRUE, armSwing |-> FALSE, chestPop |-> FALSE]]
          [] k = "101" -> [bitstring |-> "101", name |-> "Stomp & Pop",
                           description |-> "Ground to chest, explosive vertical energy",
                           energy |-> 2, emoji |-> "U+1F4A5",
                           components |-> [jabStomp |-> TRUE, armSwing |-> FALSE, chestPop |-> TRUE]]
          [] k = "110" -> [bitstring |-> "110", name |-> "Stomp & Swing",
                           description |-> "Grounded power with reaching motion",
                           energy |-> 2, emoji |-> "U+26A1",
                           components |-> [jabStomp |-> TRUE, armSwing |-> TRUE, chestPop |-> FALSE]]
          [] k = "111" -> [bitstring |-> "111", name |-> "Full Krump",
                           description |-> "Maximum intensity, all elements unleashed",
                           energy |-> 3, emoji |-> "U+1F525",
                           components |-> [jabStomp |-> TRUE, armSwing |-> TRUE, chestPop |-> TRUE]]]

TableKeys == DOMAIN KRUMP_MOVES

\* The fields a record takes from the lookup table.
MoveFields == {"bitstring", "name", "description", "energy", "emoji", "components"}

-----------------------------------------------------------------------------
(* JavaScript object semantics used by the decoder *)

\* Keys that are canonical array indices ("11", "100", ...; not "000", "001"):
\* Object.entries lists them first, in ascending numeric order, and the other
\* keys after them in insertion order.
ArrayIndex ==
    [k \in {"11", "100", "101", "110", "111"} |->
        CASE k = "11" -> 11 [] k = "100" -> 100 [] k = "101" -> 101
          [] k = "110" -> 110 [] k = "111" -> 111]

IsArrayIndex(k) == k \in DOMAIN ArrayIndex

RECURSIVE AscendingIndexEntries(_)
AscendingIndexEntries(es) ==
    IF es = {} THEN <<>>
    ELSE LET lo == CHOOSE e \in es : \A f \in es : ArrayIndex[e.key] <= ArrayIndex[f.key]
         IN  <<lo>> \o AscendingIndexEntries(es \ {lo})

\* Object.entries(obj) for an object whose properties were inserted in the
\* order of the sequence obj.
ObjectEntries(obj) ==
    LET idx == {obj[i] : i \in {j \in DOMAIN obj : IsArrayIndex(obj[j].key)}}
        IsPlain(e) == ~IsArrayIndex(e.key)
    IN  AscendingIndexEntries(idx) \o SelectSeq(obj, IsPlain)

\* Mutant: a missing probability defaults to 1 unit instead of 0.
OrZero_DefaultOne(obj, key) == IF key \in DOMAIN obj /\ obj[key] # 0 THEN obj[key] ELSE 1

\* obj[key] || 0 : a missing property and a falsy value both give 0.
OrZero(obj, key) == IF key \in DOMAIN obj /\ obj[key] # 0 THEN obj[key] ELSE 0

\* Mutant: the lookup misses the all-zero bitstring.
SpreadMove_MissesZero(bitstring) ==
    IF bitstring \in DOMAIN KRUMP_MOVES /\ bitstring # "000" THEN KRUMP_MOVES[bitstring] ELSE <<>>

\* { ...KRUMP_MOVES[bitstring] } : spreading undefined adds no property.
SpreadMove(bitstring) ==
    IF bitstring \in DOMAIN KRUMP_MOVES THEN KRUMP_MOVES[bitstring] ELSE <<>>

RECURSIVE InsertByProbability_TiesFirst(_, _)
\* Mutant: a record goes before the records that compare equal to it.
InsertByProbability_TiesFirst(sorted, r) ==
    IF sorted = <<>> THEN <<r>>
    ELSE IF Head(sorted).probability - r.probability <= 0
         THEN <<r>> \o sorted
         ELSE <<Head(sorted)>> \o InsertByProbability_TiesFirst(Tail(sorted), r)

\* Array.prototype.sort with the comparator (a, b) => b.probability - a.probability.
\* The sort is stable: a record goes after every record that does not compare
\* greater than it.
RECURSIVE InsertByProbability(_, _)
InsertByProbability(sorted, r) ==
    IF sorted = <<>> THEN <<r>>
    ELSE IF Head(sorted).probability - r.probability < 0
         THEN <<r>> \o sorted
         ELSE <<Head(sorted)>> \o InsertByProbability(Tail(sorted), r)

\* Mutant: the array is returned unsorted.
SortByProbability_NoSort(s) == s

RECURSIVE SortByProbability(_)
SortByProbability(s) ==
    IF s = <<>> THEN <<>>
    ELSE InsertByProbability(SortByProbability(SubSeq(s, 1, Len(s) - 1)), s[Len(s)])

\* Mutant: the end index is taken as inclusive.
Slice_InclusiveEnd(s, start, end) ==
    SubSeq(s, start + 1, IF end + 1 > Len(s) THEN Len(s) ELSE end + 1)

\* Array.prototype.slice(start, end), with JavaScript's treatment of a
\* negative or too large index.
Slice(s, start, end) ==
    LET clamp(i) == IF i < 0 THEN (IF Len(s) + i < 0 THEN 0 ELSE Len(s) + i)
                    ELSE IF i > Len(s) THEN Len(s) ELSE i
    IN  SubSeq(s, clamp(start) + 1, clamp(end))

-----------------------------------------------------------------------------
(* krump-decoder: the operations *)

\* Mutant: count and probability are swapped.
DecodeEntry_Swapped(e, probs) ==
    [count |-> OrZero(probs, e.key), probability |-> e.count] @@ SpreadMove(e.key)

DecodeEntry(e, probs) ==
    [count |-> e.count, probability |-> OrZero(probs, e.key)] @@ SpreadMove(e.key)

decodeKrumpResults(meas, probs) ==
    LET entries == ObjectEntries(meas)
    IN  SortByProbability([i \in DOMAIN entries |-> DecodeEntry(entries[i], probs)])

\* Mutant: count and probability are assigned to the entry of the table
\* itself (Object.assign(KRUMP_MOVES[bitstring], { count, probability })).
TableAfterEntry_Assigned(table, e, probs) ==
    IF e.key \in DOMAIN table
    THEN [table EXCEPT ![e.key] =
             [count |-> e.count, probability |-> OrZero(probs, e.key)] @@ @]
    ELSE table

\* The table after the callback of map has run for entry e: the object literal
\* { ...KRUMP_MOVES[bitstring], count, probability } is a new object, the
\* spread only reads the own properties of the entry, and count and
\* probability become properties of the new object.
TableAfterEntry(table, e, probs) == table

RECURSIVE TableAfterEntries(_, _, _)
TableAfterEntries(table, entries, probs) ==
    IF entries = <<>> THEN table
    ELSE TableAfterEntries(TableAfterEntry(table, Head(entries), probs), Tail(entries), probs)

\* KRUMP_MOVES after decodeKrumpResults(meas, probs) has returned.
TableAfterDecode(table, meas, probs) == TableAfterEntries(table, ObjectEntries(meas), probs)

getSuggestedRoutine(decoded, n) == Slice(decoded, 0, n)

getEnergyLevel(energy) ==
    CASE energy = 0 -> 1
      [] energy = 1 -> 2
      [] energy = 2 -> 3
      [] energy = 3 -> 4
      [] OTHER -> 1

-----------------------------------------------------------------------------
(* The average energy, as the call sites compute it *)

NaN == [nan |-> TRUE, value |-> 0]
Num(v) == [nan |-> FALSE, value |-> v]

\* move.energy * move.probability : undefined * x is NaN.
EnergyTimesProbability(move) ==
    IF "energy" \in DOMAIN move THEN Num(move.energy * move.probability) ELSE NaN

Plus(a, b) == IF a.nan \/ b.nan THEN NaN ELSE Num(a.value + b.value)

RECURSIVE WeightedEnergy(_)
WeightedEnergy(decoded) ==
    IF decoded = <<>> THEN Num(0)
    ELSE Plus(WeightedEnergy(SubSeq(decoded, 1, Len(decoded) - 1)),
              EnergyTimesProbability(decoded[Len(decoded)]))

RECURSIVE TotalProbability(_)
TotalProbability(decoded) ==
    IF decoded = <<>> THEN 0
    ELSE TotalProbability(Tail(decoded)) + Head(decoded).probability

\* KrumpChoreography and the first generateKrumpSVG: the plain reduce.
AverageEnergyUnguarded(decoded) == WeightedEnergy(decoded)

\* The current generateKrumpSVG: the reduce only when the probabilities sum
\* to more than 0, else 0.
AverageEnergyGuarded(decoded) ==
    IF TotalProbability(decoded) > 0 THEN WeightedEnergy(decoded) ELSE Num(0)

\* move.energy * move.count : undefined * x is NaN.
EnergyTimesCount(move) ==
    IF "energy" \in DOMAIN move THEN Num(move.energy * move.count) ELSE NaN

RECURSIVE TotalEnergy(_)
\* const totalEnergy = decodedMoves.reduce((sum, move) => sum + (move.energy * move.count), 0)
TotalEnergy(decoded) ==
    IF decoded = <<>> THEN Num(0)
    ELSE Plus(TotalEnergy(SubSeq(decoded, 1, Len(decoded) - 1)),
              EnergyTimesCount(decoded[Len(decoded)]))

\* a / b for a >= 0 and b >= 0, in units of 1/ProbUnit and held with its
\* denominator: the number is value / den.  0 / 0 is NaN, and a / 0 for
\* a > 0 is Infinity, held with den = 0.
Quotient(a, b) ==
    IF a.nan \/ (a.value = 0 /\ b = 0) THEN [nan |-> TRUE, value |-> 0, den |-> 1]
    ELSE IF b = 0 THEN [nan |-> FALSE, value |-> 1, den |-> 0]
    ELSE [nan |-> FALSE, value |-> a.value * ProbUnit, den |-> b]

\* The first KrumpChoreography: totalEnergy / shots.
AverageEnergyByCount(decoded, shotCount) == Quotient(TotalEnergy(decoded), shotCount)

\* The average energies before any call site has run.
NoAverageEnergy ==
    [guarded |-> Num(0), unguarded |-> Num(0), byCount |-> Quotient(Num(0), 1)]

\* The denominator a number is held with.
Den(x) == IF "den" \in DOMAIN x THEN x.den ELSE 1

-----------------------------------------------------------------------------
(* Inputs of the decoder *)

\* Keys of the freely chosen measurement maps: a key with leading zeros, an
\* array-index key of the table, and the Bell-state key "11" that the table
\* does not hold.
InputKeys == {"001", "111", "11"}

RECURSIVE SeqsUpTo(_, _)
SeqsUpTo(S, n) ==
    IF n = 0 THEN {<<>>}
    ELSE LET shorter == SeqsUpTo(S, n - 1)
         IN  shorter \cup {Append(s, x) : s \in shorter, x \in S}

DistinctKeys(s) == \A i, j \in DOMAIN s : i # j => s[i].key # s[j].key

FreeMeasurements ==
    {s \in SeqsUpTo([key : InputKeys, count : 0..MaxCount], MaxEntries) : DistinctKeys(s)}

PartialFunctions(D, R) == UNION {[d -> R] : d \in SUBSET D}

FreeProbabilities == PartialFunctions(InputKeys, 0..MaxProb)

\* Measurement maps over exactly the keys of the table, inserted in ascending
\* or in descending order, one shot each.
TableAscending == <<"000", "001", "010", "011", "100", "101", "110", "111">>

TableMeasurements ==
    { [i \in 1..8 |-> [key |-> TableAscending[IF up THEN i ELSE 9 - i], count |-> 1]]
        : up \in BOOLEAN }

TableProbabilities == [TableKeys -> {0, 1}]

-----------------------------------------------------------------------------
(* The decoder and its callers as a state machine *)

NoDocument == [images |-> <<>>, texts |-> <<>>]

\* No escaping helper has been called.
EscapeIdle == text = <<>> /\ escaped = <<>> /\ escaper = "none"

\* No generator runs.
RenderIdle ==
    /\ variant = "none" /\ freeText = <<>> /\ genPc = "idle" /\ assetIndex = 0
    /\ response = "none" /\ embedded = <<>> /\ failedAssets = {} /\ document = NoDocument

\* No download handler runs.
DownloadIdle ==
    /\ handler = "none" /\ handlerPc = "idle" /\ svg = "none"
    /\ downloaded = "none" /\ toast = "none"

NoLayout == [sections |-> <<>>, bars |-> <<>>, rawLines |-> 0, trailer |-> -1,
             totalHeight |-> 0]

NoMetadata == [prompt |-> FALSE, category |-> FALSE]

\* Nothing is laid out.
LayoutIdle ==
    /\ layoutVariant = "none" /\ chart = <<>> /\ rawLineCount = 0 /\ layout = NoLayout
    /\ codeLines = 0 /\ metadata = NoMetadata

NoResults == [format |-> "none", measurements |-> <<>>, probabilities |-> <<>>, shots |-> 0]

NoJob == [status |-> "none", results |-> NoResults]

NoData == [format |-> "none", shots |-> 0, results |-> <<>>]

NoReply == [status |-> 0, results |-> NoResults]

\* The function is not invoked.
RelayIdle ==
    /\ serviceUrl = "unset" /\ requestShots = 0 /\ job = NoJob /\ relayPc = "idle"
    /\ candidateIndex = 0 /\ attemptedEndpoints = <<>> /\ timers = {}
    /\ serviceCalls = <<>> /\ serviceData = NoData /\ reply = NoReply

\* The sample result of the platform: a Bell state measured 1024 times.
BellCount == 512

BellShots == 1024

BellMeasurements == <<[key |-> "00", count |-> BellCount], [key |-> "11", count |-> BellCount]>>

\* probabilities { '00': 0.5, '11': 0.5 }
BellProbabilities == [k \in {"00", "11"} |-> ProbUnit \div 2]

\* No generator is called a second time.
RerunIdle == runs = 0 /\ previous = NoDocument

\* The Dashboard is not open.
PollIdle ==
    /\ executing = FALSE /\ pollingJobId = "null" /\ dashPc = "closed" /\ elapsed = 0
    /\ rowStatus = "none" /\ pollTimer = FALSE /\ dashToast = "none" /\ submissions = 0

\* streamChat is not called.
StreamIdle ==
    /\ sseLines = <<>> /\ sseTerminated = FALSE /\ readPos = 0 /\ textBuffer = <<>>
    /\ deltas = <<>> /\ streamPc = "idle" /\ isStreaming = FALSE

\* The value null of downloadingJobId; the jobs are numbered from 1.
NullJobId == 0

\* The job queue is not shown.
QueueIdle == downloadingJobId = NullJobId /\ inFlight = <<>> /\ queueToast = "none"

InitDecode ==
    /\ \/ /\ measurements \in FreeMeasurements
          /\ probabilities \in FreeProbabilities
          /\ shots \in 0..MaxShots
       \/ /\ measurements \in TableMeasurements
          /\ probabilities \in TableProbabilities
          /\ shots = 8
       \/ /\ measurements = BellMeasurements
          /\ probabilities = BellProbabilities
          /\ shots = BellShots
    /\ decodedMoves = <<>>
    /\ suggestedRoutine = <<>>
    /\ topN = 0
    /\ averageEnergy = NoAverageEnergy
    /\ phase = "input"
    /\ movesTable = KRUMP_MOVES
    /\ EscapeIdle
    /\ RenderIdle
    /\ DownloadIdle
    /\ LayoutIdle
    /\ RelayIdle
    /\ RerunIdle
    /\ PollIdle
    /\ StreamIdle
    /\ QueueIdle

\* const decodedMoves = decodeKrumpResults(measurements, probabilities)
Decode ==
    /\ phase = "input"
    /\ decodedMoves' = decodeKrumpResults(measurements, probabilities)
    /\ movesTable' = TableAfterDecode(movesTable, measurements, probabilities)
    /\ phase' = "decoded"
    /\ UNCHANGED <<measurements, probabilities, shots, suggestedRoutine, topN, averageEnergy,
                   escapeVars, renderVars,
                   downloadVars, layoutVars, relayVars, rerunVars,
                   pollVars, streamVars, queueVars>>

\* const suggestedRoutine = getSuggestedRoutine(decodedMoves, n)
SuggestRoutine ==
    /\ phase = "decoded"
    /\ \E n \in 0..MaxTopN :
          /\ topN' = n
          /\ suggestedRoutine' = getSuggestedRoutine(decodedMoves, n)
    /\ phase' = "routine"
    /\ UNCHANGED <<measurements, probabilities, shots, decodedMoves, averageEnergy, movesTable,
                   escapeVars, renderVars,
                   downloadVars, layoutVars, relayVars, rerunVars,
                   pollVars, streamVars, queueVars>>

\* const avgEnergy = decodedMoves.reduce(...)
ComputeAverageEnergy ==
    /\ phase = "routine"
    /\ averageEnergy' = [guarded |-> AverageEnergyGuarded(decodedMoves),
                         unguarded |-> AverageEnergyUnguarded(decodedMoves),
                         byCount |-> AverageEnergyByCount(decodedMoves, shots)]
    /\ phase' = "energy"
    /\ UNCHANGED <<measurements, probabilities, shots, decodedMoves, suggestedRoutine, topN,
                   movesTable,
                   escapeVars, renderVars,
                   downloadVars, layoutVars, relayVars, rerunVars,
                   pollVars, streamVars, queueVars>>

NextDecode == Decode \/ SuggestRoutine \/ ComputeAverageEnergy

SpecDecode == InitDecode /\ [][NextDecode]_vars

-----------------------------------------------------------------------------
(* Properties of the decoder *)

MeasuredKeys == {measurements[i].key : i \in DOMAIN measurements}

HasField(r, f) == f \in DOMAIN r

FullyDefined(r) == HasField(r, "name") /\ HasField(r, "energy") /\ HasField(r, "description")

RECURSIVE SumCounts(_)
SumCounts(s) == IF s = <<>> THEN 0 ELSE Head(s).count + SumCounts(Tail(s))

\* The probability the input gives for a key, 0 when it gives none.
GivenProbability(k) == IF k \in DOMAIN probabilities THEN probabilities[k] ELSE 0

Min(a, b) == IF a < b THEN a ELSE b

\* C1: when the measurement map has exactly the eight keys of KRUMP_MOVES,
\* decodeKrumpResults returns eight records, one for each bitstring, and each
\* has a name, an energy and a description.
C1_DecodeTotality ==
    (phase # "input" /\ MeasuredKeys = TableKeys) =>
        /\ Len(decodedMoves) = 8
        /\ \A i \in DOMAIN decodedMoves :
              /\ FullyDefined(decodedMoves[i])
              /\ decodedMoves[i].name # ""
              /\ decodedMoves[i].description # ""
              /\ decodedMoves[i].energy \in 0..3
        /\ \A k \in TableKeys :
              Cardinality({i \in DOMAIN decodedMoves :
                              HasField(decodedMoves[i], "bitstring")
                              /\ decodedMoves[i].bitstring = k}) = 1

C1_Witness ==
    /\ phase = "decoded"
    /\ MeasuredKeys = TableKeys
    /\ Len(decodedMoves) = 8
    /\ decodedMoves[1].bitstring # measurements[1].key

\* C2: the sequence returned by decodeKrumpResults is in descending order of
\* probability: each record's probability is at least that of the next.
C2_DescendingProbability ==
    phase # "input" =>
        \A i \in 1..(Len(decodedMoves) - 1) :
            decodedMoves[i].probability >= decodedMoves[i + 1].probability

C2_Witness ==
    /\ phase = "decoded"
    /\ Len(decodedMoves) >= 3
    /\ \E i, j \in DOMAIN measurements :
          i < j /\ GivenProbability(measurements[i].key) < GivenProbability(measurements[j].key)
    /\ decodedMoves[1].probability > decodedMoves[Len(decodedMoves)].probability

\* C3 (as claimed): a measurement map with a bitstring that KRUMP_MOVES does not
\* hold makes the decoder raise instead of returning, and no returned record
\* lacks its name, energy or description.
C3_UnknownBitstringRaises ==
    /\ (\E k \in MeasuredKeys : k \notin TableKeys) => phase = "input"
    /\ \A i \in DOMAIN decodedMoves : FullyDefined(decodedMoves[i])

\* C4 (as claimed): the average energy, at every call site, is a number
\* between 0 and 3.
C4_AverageEnergyBounds ==
    phase = "energy" =>
        \A site \in DOMAIN averageEnergy :
            /\ ~averageEnergy[site].nan
            /\ 0 <= averageEnergy[site].value
            /\ averageEnergy[site].value <= 3 * ProbUnit * Den(averageEnergy[site])

\* C5: when the counts of the measurement map sum to shots, the counts of the
\* returned records sum to shots as well.
C5_CountsSumToShots ==
    (phase # "input" /\ SumCounts(measurements) = shots) =>
        SumCounts(decodedMoves) = shots

C5_Witness ==
    /\ phase = "decoded"
    /\ Len(decodedMoves) >= 2
    /\ shots > 0
    /\ SumCounts(measurements) = shots
    /\ \E i \in DOMAIN measurements : measurements[i].count = 0

\* A record is the record of a measurement entry: it carries the entry's count,
\* the probability given for the entry's key (0 when none is given) and the
\* table's bitstring for that key.
RecordOf(r, e) ==
    /\ r.count = e.count
    /\ r.probability = GivenProbability(e.key)
    /\ IF e.key \in TableKeys
       THEN HasField(r, "bitstring") /\ r.bitstring = e.key
       ELSE ~HasField(r, "bitstring")

SameRecord(e, f) ==
    /\ e.count = f.count
    /\ GivenProbability(e.key) = GivenProbability(f.key)
    /\ \/ e.key = f.key
       \/ e.key \notin TableKeys /\ f.key \notin TableKeys

\* C6: decodeKrumpResults returns one record per key of measurements, with that
\* key's count and the probability given for it, or 0 when none is given; a key
\* that only probabilities holds gives no record.
C6_OneRecordPerMeasuredKey ==
    phase # "input" =>
        /\ Len(decodedMoves) = Len(measurements)
        /\ \A j \in DOMAIN measurements :
              Cardinality({i \in DOMAIN decodedMoves : RecordOf(decodedMoves[i], measurements[j])})
                = Cardinality({i \in DOMAIN measurements : SameRecord(measurements[i], measurements[j])})
        /\ \A k \in DOMAIN probabilities \ MeasuredKeys :
              \A i \in DOMAIN decodedMoves :
                  ~(HasField(decodedMoves[i], "bitstring") /\ decodedMoves[i].bitstring = k)

C6_Witness ==
    /\ phase = "decoded"
    /\ Len(decodedMoves) >= 2
    /\ \E k \in MeasuredKeys : k \notin DOMAIN probabilities
    /\ \E k \in MeasuredKeys : k \in DOMAIN probabilities /\ probabilities[k] > 0
    /\ \E k \in DOMAIN probabilities : k \notin MeasuredKeys /\ probabilities[k] > 0

C7_WitnessTopOne ==
    /\ phase = "routine"
    /\ topN = 1
    /\ Len(decodedMoves) >= 2
    /\ suggestedRoutine = <<decodedMoves[1]>>

-----------------------------------------------------------------------------
(* XML escaping.  A string is a sequence of pieces; each reserved character *)
(* is a piece of its own, and an entity is "&" followed by the piece that   *)
(* names it.                                                                *)

Reserved == {"&", "<", ">", "\"", "'"}

EntityNames == {"amp;", "lt;", "gt;", "quot;", "apos;"}

\* String.prototype.replace(/ch/g, with)
RECURSIVE ReplaceAll(_, _, _)
ReplaceAll(str, ch, with) ==
    IF str = <<>> THEN <<>>
    ELSE (IF Head(str) = ch THEN with ELSE <<Head(str)>>) \o ReplaceAll(Tail(str), ch, with)

\* The four replacements applied inline to each raw-data line.
EscapeRawLine(line) ==
    ReplaceAll(ReplaceAll(ReplaceAll(ReplaceAll(line,
        "&", <<"&", "amp;">>), "<", <<"&", "lt;">>), ">", <<"&", "gt;">>), "\"", <<"&", "quot;">>)

\* Mutant: the apostrophe is left as it is.
escapeXml_NoApostrophe(str) ==
    IF str = <<>> THEN <<>>
    ELSE ReplaceAll(ReplaceAll(ReplaceAll(ReplaceAll(str,
            "&", <<"&", "amp;">>), "<", <<"&", "lt;">>), ">", <<"&", "gt;">>),
            "\"", <<"&", "quot;">>)

\* escapeXml of svg-generator and krump-svg-generator.
escapeXml(str) ==
    IF str = <<>> THEN <<>>
    ELSE ReplaceAll(ReplaceAll(ReplaceAll(ReplaceAll(ReplaceAll(str,
            "&", <<"&", "amp;">>), "<", <<"&", "lt;">>), ">", <<"&", "gt;">>),
            "\"", <<"&", "quot;">>), "'", <<"&", "apos;">>)

\* escapeXml of circuit-portrait-generator: the same replacements, no guard.
escapeXmlPortrait(str) ==
    ReplaceAll(ReplaceAll(ReplaceAll(ReplaceAll(ReplaceAll(str,
        "&", <<"&", "amp;">>), "<", <<"&", "lt;">>), ">", <<"&", "gt;">>),
        "\"", <<"&", "quot;">>), "'", <<"&", "apos;">>)

\* The pieces strings are made of: the reserved characters, a plain character
\* and the name of an entity (so that "&amp;" is an input too).
Pieces == Reserved \cup {"a", "amp;"}

Strings(n) == SeqsUpTo(Pieces, n)

\* Nothing is decoded.
DecodeIdle ==
    /\ measurements = <<>> /\ probabilities = <<>> /\ shots = 0
    /\ decodedMoves = <<>> /\ suggestedRoutine = <<>> /\ topN = 0
    /\ averageEnergy = NoAverageEnergy
    /\ phase = "idle"
    /\ movesTable = KRUMP_MOVES

InitEscape ==
    /\ text \in Strings(MaxTextLen)
    /\ escaped = <<>>
    /\ escaper = "none"
    /\ DecodeIdle
    /\ RenderIdle
    /\ DownloadIdle
    /\ LayoutIdle
    /\ RelayIdle
    /\ RerunIdle
    /\ PollIdle
    /\ StreamIdle
    /\ QueueIdle

CallEscapeXml ==
    /\ escaper = "none"
    /\ escaped' = escapeXml(text)
    /\ escaper' = "escapeXml"
    /\ UNCHANGED <<text, decodeVars, renderVars,
                   downloadVars, layoutVars, relayVars, rerunVars,
                   pollVars, streamVars, queueVars>>

CallEscapeXmlPortrait ==
    /\ escaper = "none"
    /\ escaped' = escapeXmlPortrait(text)
    /\ escaper' = "escapeXmlPortrait"
    /\ UNCHANGED <<text, decodeVars, renderVars,
                   downloadVars, layoutVars, relayVars, rerunVars,
                   pollVars, streamVars, queueVars>>

CallEscapeRawLine ==
    /\ escaper = "none"
    /\ escaped' = EscapeRawLine(text)
    /\ escaper' = "rawLine"
    /\ UNCHANGED <<text, decodeVars, renderVars,
                   downloadVars, layoutVars, relayVars, rerunVars,
                   pollVars, streamVars, queueVars>>

NextEscape == CallEscapeXml \/ CallEscapeXmlPortrait \/ CallEscapeRawLine

SpecEscape == InitEscape /\ [][NextEscape]_vars

\* C14 (as claimed): decoding the Bell-state result gives exactly 2 records,
\* each with probability 0.5 and with the energy of its entry of KRUMP_MOVES,
\* and every call site computes the average energy as a number from them.
C14_BellStateDecoded ==
    (phase = "energy" /\ measurements = BellMeasurements) =>
        /\ Len(decodedMoves) = 2
        /\ \A i \in DOMAIN decodedMoves :
              /\ decodedMoves[i].probability = ProbUnit \div 2
              /\ HasField(decodedMoves[i], "bitstring")
              /\ HasField(decodedMoves[i], "energy")
              /\ decodedMoves[i].energy = KRUMP_MOVES[decodedMoves[i].bitstring].energy
        /\ \A site \in DOMAIN averageEnergy : ~averageEnergy[site].nan

\* C22: among the returned records, those of any one probability are the
\* decoded entries of that probability in the order in which Object.entries
\* iterates their keys.
C22_TiesKeepIterationOrder ==
    phase # "input" =>
        LET entries == ObjectEntries(measurements)
            inOrder == [i \in DOMAIN entries |-> DecodeEntry(entries[i], probabilities)]
        IN  \A p \in {inOrder[i].probability : i \in DOMAIN inOrder}
                      \cup {decodedMoves[i].probability : i \in DOMAIN decodedMoves} :
                LET Tied(r) == r.probability = p
                IN  SelectSeq(decodedMoves, Tied) = SelectSeq(inOrder, Tied)

\* Two different records with the same probability have been returned by a
\* call in which the sort has moved a record.
C22_Witness ==
    /\ phase = "decoded"
    /\ \E i, j \in DOMAIN decodedMoves :
          /\ i < j
          /\ decodedMoves[i].probability = decodedMoves[j].probability
          /\ decodedMoves[i] # decodedMoves[j]
    /\ decodedMoves # [i \in DOMAIN measurements |-> DecodeEntry(measurements[i], probabilities)]

\* C23 (as claimed): when every record has probability 0 (an empty result
\* included), the average energy is the number 0 at every call site.
C23_ZeroProbabilityGivesZero ==
    (phase = "energy" /\ \A i \in DOMAIN decodedMoves : decodedMoves[i].probability = 0) =>
        \A site \in DOMAIN averageEnergy :
            ~averageEnergy[site].nan /\ averageEnergy[site].value = 0

-----------------------------------------------------------------------------
(* Properties of the escaping helpers *)

\* A string holds no raw reserved character: none of < > " ' at all, and "&"
\* only as the start of one of the five entities.
NoRawReserved(str) ==
    \A i \in DOMAIN str :
        /\ str[i] \notin {"<", ">", "\"", "'"}
        /\ str[i] = "&" => (i < Len(str) /\ str[i + 1] \in EntityNames)

HasReserved(str) == \E i \in DOMAIN str : str[i] \in Reserved

\* C8: the output of escapeXml holds no raw & < > " ', and a string without
\* any of them is returned unchanged.
C8_EscapeXmlSafe ==
    escaper \in {"escapeXml", "escapeXmlPortrait"} =>
        /\ NoRawReserved(escaped)
        /\ ~HasReserved(text) => escaped = text

C8_Witness ==
    /\ escaper = "escapeXml"
    /\ Len(text) = 3
    /\ text[1] = "&" /\ text[2] = "amp;" /\ text[3] = "'"
    /\ Len(escaped) = 5

C8_WitnessUnchanged ==
    /\ escaper = "escapeXmlPortrait"
    /\ text = <<"a", "amp;">>
    /\ escaped = text

-----------------------------------------------------------------------------
(* The SVG generators: what each embeds in the document *)

\* The generators, by source:
\*   "results"       generateResultsSVG with embedded logos (svg-generator)
\*   "resultsFirst"  generateResultsSVG without images
\*   "krump"         generateKrumpSVG with embedded logos (krump-svg-generator)
\*   "krumpCompact"  generateKrumpSVG, compact cards, without images
\*   "krumpFirst"    generateKrumpSVG, first layout, with the raw-data section
\*   "portrait"      generateCircuitPortraitSVG
Variants == {"results", "resultsFirst", "krump", "krumpCompact", "krumpFirst", "portrait"}

KrumpVariants == {"krump", "krumpCompact", "krumpFirst"}

\* The images each generator converts with imageToBase64, in order.
Assets(v) ==
    CASE v \in {"results", "krump"} -> <<"ikfLogo", "iyqLogoWhite", "quantumKrumpLogo">>
      [] v = "portrait" -> <<"ikfLogo", "iyqLogo">>
      [] OTHER -> <<>>

RawLineCap == 50

RoutineLength == 5

\* The pieces of a string constant of the model.
PiecesOf(str) ==
    CASE str = "Stomp & Pop" -> <<"Stomp ", "&", " Pop">>
      [] str = "Stomp & Swing" -> <<"Stomp ", "&", " Swing">>
      [] str = "<b>" -> <<"<", "b", ">">>
      [] OTHER -> <<str>>

\* value || fallback, for strings
OrDefault(str, fallback) == IF str = <<>> THEN <<fallback>> ELSE str

\* new Date(created_at).toLocaleString()
TimestampText == <<"11/3/2025, 8:49:53 AM">>

\* `${move.f}` in a template literal: an absent property prints "undefined".
FieldText(move, f) == IF f \in DOMAIN move THEN PiecesOf(move[f]) ELSE <<"undefined">>

\* escapeXml(move.f): an absent property is falsy and gives ''.
FieldEscaped(move, f) == IF f \in DOMAIN move THEN escapeXml(PiecesOf(move[f])) ELSE <<>>

Fragment(f, t) == [field |-> f, text |-> t]

\* s.map(Op).join('') for a callback that gives a sequence of fragments
RECURSIVE FlatMap(_, _)
FlatMap(Op(_), s) == IF s = <<>> THEN <<>> ELSE Op(Head(s)) \o FlatMap(Op, Tail(s))

\* sort((a, b) => b.count - a.count), stable
RECURSIVE InsertByCount(_, _)
InsertByCount(sorted, r) ==
    IF sorted = <<>> THEN <<r>>
    ELSE IF Head(sorted).count - r.count < 0
         THEN <<r>> \o sorted
         ELSE <<Head(sorted)>> \o InsertByCount(Tail(sorted), r)

RECURSIVE SortByCount(_)
SortByCount(s) ==
    IF s = <<>> THEN <<>>
    ELSE InsertByCount(SortByCount(SubSeq(s, 1, Len(s) - 1)), s[Len(s)])

\* chartData of generateResultsSVG
ChartData(meas, probs) ==
    LET entries == ObjectEntries(meas)
    IN  SortByCount([i \in DOMAIN entries |->
            [state |-> entries[i].key, count |-> entries[i].count,
             probability |-> OrZero(probs, entries[i].key)]])

-----------------------------------------------------------------------------
(* JSON.stringify(rawData, null, 2).split('\n') *)

\* A string inside JSON: the double quote is written \" .
JsonString(str) == <<"\"">> \o ReplaceAll(str, "\"", <<"\\", "\"">>) \o <<"\"">>

JsonProbability(p) == <<ToString(p), "/", ToString(ProbUnit)>>

JsonNumber(n) == IF n.nan THEN <<"null">> ELSE <<ToString(n.value), "/", ToString(ProbUnit)>>

Comma(last) == IF last THEN <<>> ELSE <<",">>

\* One line: indentation, "key": and the value.
JsonLine(indent, key, value, last) ==
    <<indent>> \o JsonString(<<key>>) \o <<": ">> \o value \o Comma(last)

\* The lines of an object whose values are numbers, keyed by measurement keys.
JsonMapLines(indent, name, entries, Value(_), last) ==
    IF entries = <<>>
    THEN <<JsonLine(indent, name, <<"{}">>, last)>>
    ELSE <<JsonLine(indent, name, <<"{">>, TRUE)>>
         \o [i \in DOMAIN entries |->
               <<indent, "  ">> \o JsonString(PiecesOf(entries[i].key)) \o <<": ">>
               \o Value(entries[i]) \o Comma(i = Len(entries))]
         \o << <<indent, "}">> \o Comma(last) >>

\* The lines of  "results": {measurements, probabilities, shots, circuit}
ResultsLines(last) ==
    LET entries == ObjectEntries(measurements)
        present == SelectSeq(entries, LAMBDA e : e.key \in DOMAIN probabilities)
        Count(e) == <<ToString(e.count)>>
        Prob(e) == JsonProbability(probabilities[e.key])
    IN  <<JsonLine("  ", "results", <<"{">>, TRUE)>>
        \o JsonMapLines("    ", "measurements", entries, Count, FALSE)
        \o JsonMapLines("    ", "probabilities", present, Prob, FALSE)
        \o <<JsonLine("    ", "shots", <<ToString(shots)>>, FALSE),
             JsonLine("    ", "circuit", JsonString(freeText), TRUE),
             <<"  }">> \o Comma(last)>>

\* The lines of  "metadata": {backend_type, shots, created_at, circuit}
MetadataLines(last) ==
    <<JsonLine("  ", "metadata", <<"{">>, TRUE),
      JsonLine("    ", "backend_type", JsonString(freeText), FALSE),
      JsonLine("    ", "shots", <<ToString(shots)>>, FALSE),
      JsonLine("    ", "created_at", JsonString(<<"2025-11-03T08:49:53Z">>), FALSE),
      JsonLine("    ", "circuit", JsonString(freeText), TRUE),
      <<"  }">> \o Comma(last)>>

\* The lines of one decoded move inside an array.
MoveLines(move, last) ==
    LET JsonBool(b) == IF b THEN <<"true">> ELSE <<"false">>
        table == IF "name" \in DOMAIN move
                 THEN <<JsonLine("      ", "bitstring", JsonString(PiecesOf(move.bitstring)), FALSE),
                        JsonLine("      ", "name", JsonString(PiecesOf(move.name)), FALSE),
                        JsonLine("      ", "description", JsonString(PiecesOf(move.description)), FALSE),
                        JsonLine("      ", "energy", <<ToString(move.energy)>>, FALSE),
                        JsonLine("      ", "emoji", JsonString(PiecesOf(move.emoji)), FALSE),
                        JsonLine("      ", "components", <<"{">>, TRUE),
                        JsonLine("        ", "jabStomp", JsonBool(move.components.jabStomp), FALSE),
                        JsonLine("        ", "armSwing", JsonBool(move.components.armSwing), FALSE),
                        JsonLine("        ", "chestPop", JsonBool(move.components.chestPop), TRUE),
                        <<"      },">> >>
                 ELSE <<>>
    IN  << <<"    {">> >> \o table
        \o <<JsonLine("      ", "count", <<ToString(move.count)>>, FALSE),
             JsonLine("      ", "probability", JsonProbability(move.probability), TRUE),
             <<"    }">> \o Comma(last)>>

RECURSIVE MoveArrayLines(_)
MoveArrayLines(moves) ==
    IF moves = <<>> THEN <<>>
    ELSE MoveLines(Head(moves), Len(moves) = 1) \o MoveArrayLines(Tail(moves))

JsonArrayLines(name, moves) ==
    IF moves = <<>>
    THEN <<JsonLine("  ", name, <<"[]">>, FALSE)>>
    ELSE <<JsonLine("  ", name, <<"[">>, TRUE)>> \o MoveArrayLines(moves) \o << <<"  ],">> >>

\* rawDataLines of generateResultsSVG: {results, metadata}
ResultsRawDataLines ==
    << <<"{">> >> \o ResultsLines(FALSE) \o MetadataLines(TRUE) \o << <<"}">> >>

\* rawDataLines of the first generateKrumpSVG:
\* {results, metadata, decoded_moves, suggested_routine, average_energy}
KrumpRawDataLines(decoded, routine, avgEnergy) ==
    << <<"{">> >> \o ResultsLines(FALSE) \o MetadataLines(FALSE)
    \o JsonArrayLines("decoded_moves", decoded)
    \o JsonArrayLines("suggested_routine", routine)
    \o <<JsonLine("  ", "average_energy", JsonNumber(avgEnergy), TRUE), <<"}">> >>

-----------------------------------------------------------------------------
(* The free text each generator embeds, in document order *)

\* const escapedLine = line.replace(...)  for every raw-data line
RawLineFragments(lines) ==
    [i \in DOMAIN lines |-> Fragment("rawData", EscapeRawLine(lines[i]))]

\* generateResultsSVG (both versions): header, state labels of the two charts
\* and of the table, raw data.
ResultsTexts(v) ==
    LET circuit == OrDefault(freeText, "Unknown Circuit")
        backend == OrDefault(freeText, "simulator")
        chartData == ChartData(measurements, probabilities)
        Label(d) == <<Fragment("state", PiecesOf(d.state))>>
        footer == IF v = "results"
                  THEN <<Fragment("timestamp", escapeXml(TimestampText))>> ELSE <<>>
    IN  <<Fragment("circuit", escapeXml(circuit)),
          Fragment("backend", escapeXml(backend)),
          Fragment("timestamp", escapeXml(TimestampText))>>
        \o FlatMap(Label, chartData) \o FlatMap(Label, chartData) \o FlatMap(Label, chartData)
        \o RawLineFragments(ResultsRawDataLines)
        \o footer

\* The current generateKrumpSVG (with or without logos): header, move cards,
\* routine bubbles, footer.
KrumpTexts(decoded, routine) ==
    LET circuit == OrDefault(freeText, "krump_choreography")
        backend == OrDefault(freeText, "simulator")
        Card(move) == <<Fragment("emoji", FieldEscaped(move, "emoji")),
                        Fragment("name", FieldEscaped(move, "name"))>>
        Bubble(move) == <<Fragment("emoji", FieldEscaped(move, "emoji"))>>
    IN  <<Fragment("circuit", escapeXml(circuit)),
          Fragment("backend", escapeXml(backend))>>
        \o FlatMap(Card, decoded)
        \o FlatMap(Bubble, routine)
        \o <<Fragment("timestamp", escapeXml(TimestampText))>>

\* The first generateKrumpSVG: nothing but the raw-data lines is escaped, and
\* at most RawLineCap raw-data lines are written.
KrumpFirstTexts(decoded, routine, avgEnergy) ==
    LET circuit == OrDefault(freeText, "krump_choreography")
        backend == OrDefault(freeText, "simulator")
        Card(move) == <<Fragment("emoji", FieldText(move, "emoji")),
                        Fragment("name", FieldText(move, "name")),
                        Fragment("description", FieldText(move, "description"))>>
        Step(move) == <<Fragment("emoji", FieldText(move, "emoji")),
                        Fragment("name", FieldText(move, "name"))>>
        lines == KrumpRawDataLines(decoded, routine, avgEnergy)
    IN  <<Fragment("circuit", circuit),
          Fragment("backend", backend),
          Fragment("timestamp", TimestampText)>>
        \o FlatMap(Card, decoded)
        \o FlatMap(Step, routine)
        \o RawLineFragments(Slice(lines, 0, RawLineCap))

\* generateCircuitPortraitSVG: domain badge, title, code lines, prompt,
\* category, footer.  The code is the one line freeText; the prompt is shorter
\* than the 140 characters it is cut to.
PortraitTexts ==
    LET Optional(f, str) == IF str = <<>> THEN <<>> ELSE <<Fragment(f, escapeXmlPortrait(str))>>
    IN  Optional("domain", freeText)
        \o <<Fragment("circuitName", escapeXmlPortrait(OrDefault(freeText, "Quantum Circuit"))),
             Fragment("code", escapeXmlPortrait(freeText))>>
        \o Optional("prompt", freeText)
        \o Optional("category", freeText)
        \o <<Fragment("timestamp", escapeXmlPortrait(TimestampText))>>
        \o Optional("backend", freeText)
        \o (IF shots # 0 THEN <<Fragment("shots", escapeXmlPortrait(<<ToString(shots)>>))>> ELSE <<>>)

-----------------------------------------------------------------------------
(* One run of a generator *)

RenderKeys == {"101", "11", "<b>"}

RenderMeasurements ==
    {s \in SeqsUpTo([key : RenderKeys, count : {1}], MaxRenderEntries) : DistinctKeys(s)}

InitRender ==
    /\ variant \in Variants
    /\ freeText \in Strings(MaxFreeTextLen)
    /\ measurements \in RenderMeasurements
    /\ probabilities = [k \in {measurements[i].key : i \in DOMAIN measurements} |-> 1]
    /\ shots = Len(measurements)
    /\ decodedMoves = <<>> /\ suggestedRoutine = <<>> /\ topN = 0
    /\ averageEnergy = NoAverageEnergy
    /\ phase = "input"
    /\ movesTable = KRUMP_MOVES
    /\ genPc = IF Assets(variant) = <<>> THEN "emit" ELSE "fetch"
    /\ assetIndex = IF Assets(variant) = <<>> THEN 0 ELSE 1
    /\ response = "none"
    /\ embedded = <<>>
    /\ failedAssets = {}
    /\ document = NoDocument
    /\ EscapeIdle
    /\ DownloadIdle
    /\ LayoutIdle
    /\ RelayIdle
    /\ RerunIdle
    /\ PollIdle
    /\ StreamIdle
    /\ QueueIdle

\* const response = await fetch(url): the promise is fulfilled for every HTTP
\* status; response.ok is not looked at.
FetchResolves ==
    /\ genPc = "fetch"
    /\ \E status \in {"ok", "notOk"} :
          /\ response' = status
          /\ failedAssets' = IF status = "ok" THEN failedAssets
                             ELSE failedAssets \cup {Assets(variant)[assetIndex]}
    /\ genPc' = "blob"
    /\ UNCHANGED <<variant, freeText, assetIndex, embedded, document, decodeVars, escapeVars,
                   downloadVars, layoutVars, relayVars, rerunVars,
                   pollVars, streamVars, queueVars>>

\* await fetch(url) rejects on a network error; the generator's promise rejects.
FetchRejects ==
    /\ genPc = "fetch"
    /\ failedAssets' = failedAssets \cup {Assets(variant)[assetIndex]}
    /\ genPc' = "rejected"
    /\ UNCHANGED <<variant, freeText, assetIndex, response, embedded, document,
                   decodeVars, escapeVars,
                   downloadVars, layoutVars, relayVars, rerunVars,
                   pollVars, streamVars, queueVars>>

\* const blob = await response.blob()
BlobResolves ==
    /\ genPc = "blob"
    /\ genPc' = "read"
    /\ UNCHANGED <<variant, freeText, assetIndex, response, embedded, failedAssets, document,
                   decodeVars, escapeVars,
                   downloadVars, layoutVars, relayVars, rerunVars,
                   pollVars, streamVars, queueVars>>

\* response.blob() rejects when the body cannot be read.
BlobRejects ==
    /\ genPc = "blob"
    /\ failedAssets' = failedAssets \cup {Assets(variant)[assetIndex]}
    /\ genPc' = "rejected"
    /\ UNCHANGED <<variant, freeText, assetIndex, response, embedded, document,
                   decodeVars, escapeVars,
                   downloadVars, layoutVars, relayVars, rerunVars,
                   pollVars, streamVars, queueVars>>

\* reader.onloadend = () => resolve(reader.result): the data URL of whatever
\* body the response had.
ReaderLoads ==
    /\ genPc = "read"
    /\ embedded' = Append(embedded, IF response = "ok" THEN "image" ELSE "errorBody")
    /\ IF assetIndex = Len(Assets(variant))
       THEN genPc' = "emit" /\ assetIndex' = assetIndex
       ELSE genPc' = "fetch" /\ assetIndex' = assetIndex + 1
    /\ response' = "none"
    /\ UNCHANGED <<variant, freeText, failedAssets, document, decodeVars, escapeVars,
                   downloadVars, layoutVars, relayVars, rerunVars,
                   pollVars, streamVars, queueVars>>

\* reader.onerror = reject
ReaderFails ==
    /\ genPc = "read"
    /\ failedAssets' = failedAssets \cup {Assets(variant)[assetIndex]}
    /\ genPc' = "rejected"
    /\ UNCHANGED <<variant, freeText, assetIndex, response, embedded, document,
                   decodeVars, escapeVars,
                   downloadVars, layoutVars, relayVars, rerunVars,
                   pollVars, streamVars, queueVars>>

\* The synchronous rest of a krump generator: decode, lay out, return the svg.
EmitKrump ==
    /\ genPc = "emit"
    /\ variant \in KrumpVariants
    /\ LET decoded == decodeKrumpResults(measurements, probabilities)
           routine == getSuggestedRoutine(decoded, RoutineLength)
       IN  /\ decodedMoves' = decoded
           /\ suggestedRoutine' = routine
           /\ topN' = RoutineLength
           /\ averageEnergy' = [guarded |-> AverageEnergyGuarded(decoded),
                                unguarded |-> AverageEnergyUnguarded(decoded),
                                byCount |-> AverageEnergyByCount(decoded, shots)]
           /\ document' = [images |-> embedded,
                           texts |-> IF variant = "krumpFirst"
                                     THEN KrumpFirstTexts(decoded, routine,
                                                          AverageEnergyUnguarded(decoded))
                                     ELSE KrumpTexts(decoded, routine)]
    /\ movesTable' = TableAfterDecode(movesTable, measurements, probabilities)
    /\ phase' = "energy"
    /\ genPc' = "returned"
    /\ UNCHANGED <<measurements, probabilities, shots, variant, freeText, assetIndex,
                   response, embedded, failedAssets, escapeVars,
                   downloadVars, layoutVars, relayVars, rerunVars,
                   pollVars, streamVars, queueVars>>

\* The synchronous rest of generateResultsSVG and generateCircuitPortraitSVG.
EmitOther ==
    /\ genPc = "emit"
    /\ variant \notin KrumpVariants
    /\ document' = [images |-> embedded,
                    texts |-> IF variant = "portrait" THEN PortraitTexts
                              ELSE ResultsTexts(variant)]
    /\ genPc' = "returned"
    /\ UNCHANGED <<variant, freeText, assetIndex, response, embedded, failedAssets,
                   decodeVars, escapeVars,
                   downloadVars, layoutVars, relayVars, rerunVars,
                   pollVars, streamVars, queueVars>>

NextRender ==
    \/ FetchResolves \/ FetchRejects
    \/ BlobResolves \/ BlobRejects
    \/ ReaderLoads \/ ReaderFails
    \/ EmitKrump \/ EmitOther

SpecRender == InitRender /\ [][NextRender]_vars

-----------------------------------------------------------------------------
(* Properties of the generators *)

\* C9 (as claimed): every free text embedded in a returned document, in every
\* generator, has all of & < > " ' escaped.
C9_AllFreeTextEscaped ==
    genPc = "returned" =>
        \A i \in DOMAIN document.texts : NoRawReserved(document.texts[i].text)

\* C10 (as claimed): when the fetch or the encoding of a branding image has
\* failed, the generator rejects and returns no document, so every image of a
\* returned document is the branding image.
C10_FailedFetchAborts ==
    /\ failedAssets # {} => (genPc # "returned" /\ document = NoDocument)
    /\ genPc = "returned" =>
          \A i \in DOMAIN document.images : document.images[i] = "image"

-----------------------------------------------------------------------------
(* The download handlers of the user interface *)

\* The handlers, by source:
\*   "jobQueue"          JobQueue.handleDownloadJob
\*   "krumpChoreography" KrumpChoreography.handleDownloadKrumpSVG
\*   "gallery"           GeneratedCircuitsGallery.handleDownload
\*   "editor"            CircuitEditor.handleDownloadPortrait
Handlers == {"jobQueue", "krumpChoreography", "gallery", "editor"}

\* The generators a handler may call.
HandlerVariants(h) ==
    CASE h = "jobQueue" -> {"krump", "results"}
      [] h = "krumpChoreography" -> {"krump"}
      [] OTHER -> {"portrait"}

\* new Blob([svgContent]): a string is stored as it is, any other value is
\* converted with String(), which gives "[object Promise]" for a promise.
BlobContent(value) == IF value = "promise" THEN "[object Promise]" ELSE value

InitDownload ==
    /\ handler \in Handlers
    /\ variant \in HandlerVariants(handler)
    /\ freeText \in Strings(MaxFreeTextLen)
    /\ measurements \in RenderMeasurements
    /\ probabilities = [k \in {measurements[i].key : i \in DOMAIN measurements} |-> 1]
    /\ shots = Len(measurements)
    /\ decodedMoves = <<>> /\ suggestedRoutine = <<>> /\ topN = 0
    /\ averageEnergy = NoAverageEnergy
    /\ phase = "input"
    /\ movesTable = KRUMP_MOVES
    /\ genPc = "idle"
    /\ assetIndex = 0
    /\ response = "none"
    /\ embedded = <<>>
    /\ failedAssets = {}
    /\ document = NoDocument
    /\ handlerPc = "start"
    /\ svg = "none"
    /\ downloaded = "none"
    /\ toast = "none"
    /\ EscapeIdle
    /\ LayoutIdle
    /\ RelayIdle
    /\ RerunIdle
    /\ PollIdle
    /\ StreamIdle
    /\ QueueIdle

\* handleDownloadJob: the query of the job row fails or has no results; the
\* handler throws and its catch block shows the failure toast.
JobQueryFails ==
    /\ handler = "jobQueue"
    /\ handlerPc = "start"
    /\ toast' = "error"
    /\ handlerPc' = "done"
    /\ UNCHANGED <<handler, svg, downloaded, decodeVars, escapeVars, renderVars, layoutVars, relayVars, rerunVars,
                   pollVars, streamVars, queueVars>>

\* handleDownloadJob after the query: the generator is called without await, so
\* svg is the pending promise; the generator has run up to its first fetch.
\* downloadFn(svg, filename) and the success toast follow in the same turn.
JobQuerySucceeds ==
    /\ handler = "jobQueue"
    /\ handlerPc = "start"
    /\ genPc' = "fetch"
    /\ assetIndex' = 1
    /\ svg' = "promise"
    /\ downloaded' = BlobContent("promise")
    /\ toast' = "success"
    /\ handlerPc' = "done"
    /\ UNCHANGED <<handler, variant, freeText, response, embedded, failedAssets, document,
                   decodeVars, escapeVars, layoutVars, relayVars, rerunVars,
                   pollVars, streamVars, queueVars>>

\* handleDownloadPortrait: if (!code.trim()) { toast(...); return; }
NoCodeToDownload ==
    /\ handler = "editor"
    /\ handlerPc = "start"
    /\ freeText = <<>>
    /\ toast' = "error"
    /\ handlerPc' = "done"
    /\ UNCHANGED <<handler, svg, downloaded, decodeVars, escapeVars, renderVars, layoutVars, relayVars, rerunVars,
                   pollVars, streamVars, queueVars>>

\* const svg = await generate...SVG(...): the generator runs up to its first
\* fetch and the handler waits for its promise.
AwaitGenerator ==
    /\ handler \in {"krumpChoreography", "gallery", "editor"}
    /\ handlerPc = "start"
    /\ handler = "editor" => freeText # <<>>
    /\ genPc' = "fetch"
    /\ assetIndex' = 1
    /\ handlerPc' = "awaiting"
    /\ UNCHANGED <<handler, variant, freeText, response, embedded, failedAssets, document,
                   svg, downloaded, toast, decodeVars, escapeVars, layoutVars, relayVars, rerunVars,
                   pollVars, streamVars, queueVars>>

\* The awaited promise is fulfilled: download and success toast.
GeneratorFulfilled ==
    /\ handlerPc = "awaiting"
    /\ genPc = "returned"
    /\ svg' = "document"
    /\ downloaded' = BlobContent("document")
    /\ toast' = "success"
    /\ handlerPc' = "done"
    /\ UNCHANGED <<handler, decodeVars, escapeVars, renderVars, layoutVars, relayVars, rerunVars,
                   pollVars, streamVars, queueVars>>

\* The awaited promise is rejected: the catch block shows the failure toast.
GeneratorRejected ==
    /\ handlerPc = "awaiting"
    /\ genPc = "rejected"
    /\ toast' = "error"
    /\ handlerPc' = "done"
    /\ UNCHANGED <<handler, svg, downloaded, decodeVars, escapeVars, renderVars, layoutVars, relayVars, rerunVars,
                   pollVars, streamVars, queueVars>>

NextDownload ==
    \/ JobQueryFails \/ JobQuerySucceeds
    \/ NoCodeToDownload \/ AwaitGenerator
    \/ GeneratorFulfilled \/ GeneratorRejected
    \/ FetchResolves \/ FetchRejects
    \/ BlobResolves \/ BlobRejects
    \/ ReaderLoads \/ ReaderFails
    \/ EmitKrump \/ EmitOther

SpecDownload == InitDownload /\ [][NextDownload]_vars

-----------------------------------------------------------------------------
(* Properties of the download handlers *)

\* C11 (as claimed): in every download handler the file is handed to the
\* browser and the success toast is shown only once the generator has returned,
\* and the file is the returned document; when the generator has failed, a
\* finished handler has shown the failure toast and no success toast.
C11_DownloadOnlyAfterRender ==
    /\ toast = "success" => (genPc = "returned" /\ downloaded = "document")
    /\ downloaded # "none" => (genPc = "returned" /\ downloaded = "document")
    /\ (handlerPc = "done" /\ genPc = "rejected") => toast = "error"

-----------------------------------------------------------------------------
(* A generator called twice on the same (results, metadata) *)

InitRerun ==
    /\ variant \in Variants
    /\ freeText \in Strings(MaxFreeTextLen)
    /\ measurements \in RenderMeasurements
    /\ probabilities = [k \in {measurements[i].key : i \in DOMAIN measurements} |-> 1]
    /\ shots = Len(measurements)
    /\ decodedMoves = <<>> /\ suggestedRoutine = <<>> /\ topN = 0
    /\ averageEnergy = NoAverageEnergy
    /\ phase = "input"
    /\ movesTable = KRUMP_MOVES
    /\ genPc = IF Assets(variant) = <<>> THEN "emit" ELSE "fetch"
    /\ assetIndex = IF Assets(variant) = <<>> THEN 0 ELSE 1
    /\ response = "none"
    /\ embedded = <<>>
    /\ failedAssets = {}
    /\ document = NoDocument
    /\ runs = 1
    /\ previous = NoDocument
    /\ EscapeIdle
    /\ DownloadIdle
    /\ LayoutIdle
    /\ RelayIdle
    /\ PollIdle
    /\ StreamIdle
    /\ QueueIdle

\* The first call has returned; the same generator is called again with the
\* same arguments and runs up to its first await.
CallAgain ==
    /\ runs = 1
    /\ genPc = "returned"
    /\ previous' = document
    /\ runs' = 2
    /\ genPc' = IF Assets(variant) = <<>> THEN "emit" ELSE "fetch"
    /\ assetIndex' = IF Assets(variant) = <<>> THEN 0 ELSE 1
    /\ response' = "none"
    /\ embedded' = <<>>
    /\ failedAssets' = {}
    /\ document' = NoDocument
    /\ UNCHANGED <<variant, freeText, decodeVars, escapeVars, downloadVars, layoutVars,
                   relayVars,
                   pollVars, streamVars, queueVars>>

NextRerun ==
    \/ CallAgain
    \/ FetchResolves \/ FetchRejects
    \/ BlobResolves \/ BlobRejects
    \/ ReaderLoads \/ ReaderFails
    \/ EmitKrump \/ EmitOther

SpecRerun == InitRerun /\ [][NextRerun]_vars

RECURSIVE WithoutClock(_)
\* The fragments of a document that are not derived from the wall clock.
WithoutClock(texts) ==
    IF texts = <<>> THEN <<>>
    ELSE IF Head(texts).field = "timestamp" THEN WithoutClock(Tail(texts))
    ELSE <<Head(texts)>> \o WithoutClock(Tail(texts))

\* C12 (as claimed): two calls of a generator with the same (results,
\* metadata) return the same document, fields derived from the wall clock
\* left aside.
C12_SameInputSameDocument ==
    (runs = 2 /\ genPc = "returned") =>
        /\ document.images = previous.images
        /\ WithoutClock(document.texts) = WithoutClock(previous.texts)

-----------------------------------------------------------------------------
(* Inputs of the decoder and of the generators *)

-----------------------------------------------------------------------------
(* Layout of the reports: what the generators compute from the number of     *)
(* outcomes, their values and the number of raw-data lines.  Lengths are in  *)
(* user units of the SVG; a bar width is the fraction num / den.             *)

\* The generators that are laid out:
\*   "results"       generateResultsSVG with embedded logos (svg-generator)
\*   "resultsFirst"  generateResultsSVG without images
\*   "krump"         generateKrumpSVG with embedded logos (krump-svg-generator)
\*   "krumpFirst"    generateKrumpSVG, first layout, with the raw-data section
LayoutVariants == {"results", "resultsFirst", "krump", "krumpFirst"}

\* The generators that emit a raw-data section.
RawDataVariants == {"results", "resultsFirst", "krumpFirst"}

Max(a, b) == IF a >= b THEN a ELSE b

\* Math.max(...values): -Infinity for no values.
MathMax(values) ==
    IF values = <<>> THEN [finite |-> FALSE, value |-> 0]
    ELSE [finite |-> TRUE,
          value |-> CHOOSE m \in {values[i] : i \in DOMAIN values} :
                        \A i \in DOMAIN values : values[i] <= m]

NaNWidth == [nan |-> TRUE, num |-> 0, den |-> 1]

\* (value / max) * barMaxWidth, as the fraction value * barMaxWidth / max;
\* 0 / 0 is NaN, and max is one of the values, so nothing else is divided by 0.
BarWidth(value, max, barMaxWidth) ==
    IF max.value = 0 THEN NaNWidth
    ELSE [nan |-> FALSE, num |-> value * barMaxWidth, den |-> max.value]

Section(name, top, height, bottom) ==
    [name |-> name, top |-> top, height |-> height, bottom |-> bottom]

\* generateResultsSVG: the two versions differ in margin.top, in the lowest
\* element of the header and in the footer (a group of height footerHeight
\* at totalHeight - footerOffset, or a text at that place).
ResultsLayout(chartData, lines, marginTop, headerBottom, footerOffset, footerHeight) ==
    LET n == Len(chartData)
        maxCount == MathMax([i \in DOMAIN chartData |-> chartData[i].count])
        maxProbability == MathMax([i \in DOMAIN chartData |-> chartData[i].probability])
        barHeight == 30
        barSpacing == 10
        chartHeight == n * (barHeight + barSpacing) + 40
        probabilityHeight == n * (barHeight + barSpacing) + 40
        barMaxWidth == 350
        rawDataHeight == lines * 14 + 60
        tableHeight == n * 30 + 80
        totalHeight == marginTop + chartHeight + probabilityHeight + tableHeight
                       + rawDataHeight + 140
        chartTop == marginTop
        probabilityTop == marginTop + chartHeight + 40
        tableTop == marginTop + chartHeight + probabilityHeight + 80
        rawTop == marginTop + chartHeight + probabilityHeight + tableHeight + 100
        footerTop == totalHeight - footerOffset
    IN  [sections |->
            << Section("header", 0, marginTop, headerBottom),
               Section("counts", chartTop, chartHeight, chartTop + chartHeight - 15),
               Section("probabilities", probabilityTop, probabilityHeight,
                       probabilityTop + probabilityHeight - 15),
               Section("table", tableTop, tableHeight,
                       tableTop + Max(20 + 30, 55 + (n - 1) * 30 + 28)),
               Section("rawData", rawTop, rawDataHeight,
                       rawTop + Max(15 + rawDataHeight - 40, 35 + (lines - 1) * 14)),
               Section("footer", footerTop, footerHeight, footerTop + footerHeight) >>,
         bars |->
            [i \in DOMAIN chartData |->
                [section |-> "counts",
                 width |-> BarWidth(chartData[i].count, maxCount, barMaxWidth),
                 full |-> barMaxWidth]]
            \o [i \in DOMAIN chartData |->
                [section |-> "probabilities",
                 width |-> BarWidth(chartData[i].probability, maxProbability, barMaxWidth),
                 full |-> barMaxWidth]],
         rawLines |-> lines,
         trailer |-> -1,
         totalHeight |-> totalHeight]

\* Math.ceil(n / 2)
CeilHalf(n) == (n + 1) \div 2

\* The current generateKrumpSVG: two-column move cards, routine, tips, donut.
KrumpLayout(decoded) ==
    LET n == Len(decoded)
        marginTop == 130
        moveCardHeight == 80
        moveRows == CeilHalf(n)
        moveCardsHeight == moveRows * (moveCardHeight + 15) + 80
        routineHeight == 140
        tipsHeight == 110
        energyDistHeight == 200
        totalHeight == marginTop + moveCardsHeight + routineHeight + tipsHeight
                       + energyDistHeight + 100
        routineTop == marginTop + moveCardsHeight + 20
        tipsTop == marginTop + moveCardsHeight + routineHeight + 35
        energyTop == marginTop + moveCardsHeight + routineHeight + tipsHeight + 50
        footerTop == totalHeight - 60
    IN  [sections |->
            << Section("header", 0, marginTop, 15 + 110),
               Section("moves", marginTop, moveCardsHeight,
                       marginTop + Max(18, 35 + (moveRows - 1) * (moveCardHeight + 15)
                                           + moveCardHeight)),
               Section("routine", routineTop, routineHeight, routineTop + 20 + 90),
               Section("tips", tipsTop, tipsHeight, tipsTop + 18 + 70),
               \* the labels of the donut reach 80 * sin(45 deg) + 14 < 71 below its centre
               Section("energy", energyTop, energyDistHeight, energyTop + 95 + 71),
               Section("footer", footerTop, 60, footerTop + 60) >>,
         bars |-> <<>>,
         rawLines |-> 0,
         trailer |-> -1,
         totalHeight |-> totalHeight]

\* The first generateKrumpSVG: one card per row and a raw-data section of at
\* most 50 lines with a trailer.
KrumpFirstLayout(decoded, lines) ==
    LET n == Len(decoded)
        marginTop == 140
        moveCardHeight == 180
        moveCardsHeight == n * (moveCardHeight + 20) + 60
        routineHeight == 280
        tipsHeight == 200
        energyDistHeight == 250
        rawDataHeight == Min(lines * 14 + 60, 800)
        totalHeight == marginTop + moveCardsHeight + routineHeight + tipsHeight
                       + energyDistHeight + rawDataHeight + 100
        routineTop == marginTop + moveCardsHeight + 40
        tipsTop == marginTop + moveCardsHeight + routineHeight + 60
        energyTop == marginTop + moveCardsHeight + routineHeight + tipsHeight + 80
        rawTop == marginTop + moveCardsHeight + routineHeight + tipsHeight
                  + energyDistHeight + 100
        shown == Len(Slice([i \in 1..lines |-> i], 0, RawLineCap))
        more == IF lines > RawLineCap THEN lines - RawLineCap ELSE -1
        lastText == IF lines > RawLineCap THEN 35 + RawLineCap * 14
                    ELSE 35 + (shown - 1) * 14
        footerTop == totalHeight - 20
    IN  [sections |->
            << Section("header", 0, marginTop, 120),
               Section("moves", marginTop, moveCardsHeight,
                       marginTop + Max(0, 40 + (n - 1) * (moveCardHeight + 20)
                                          + moveCardHeight - 10)),
               Section("routine", routineTop, routineHeight, routineTop + 20 + 220),
               Section("tips", tipsTop, tipsHeight, tipsTop + 20 + 140),
               Section("energy", energyTop, energyDistHeight, energyTop + 40 + 3 * 45 + 5),
               Section("rawData", rawTop, rawDataHeight,
                       rawTop + Max(15 + rawDataHeight - 40, lastText)),
               Section("footer", footerTop, 0, footerTop) >>,
         bars |-> <<>>,
         rawLines |-> shown,
         trailer |-> more,
         totalHeight |-> totalHeight]

\* const categoryHeight = metadata.category ? 40 : 0
CategoryHeight(meta) == IF meta.category THEN 40 ELSE 0

\* generateCircuitPortraitSVG: the code box, the prompt block (two lines of
\* text, from the top of the first to the baseline of the second), the
\* category badge and the footer box.  The height of a section is the space
\* the code keeps for it in totalHeight.
PortraitLayout(lines, meta) ==
    LET lineHeight == 20
        codeStartY == 240
        codeHeight == Max(lines * lineHeight + 60, 400)
        promptHeight == IF meta.prompt THEN 80 ELSE 0
        categoryHeight == CategoryHeight(meta)
        totalHeight == codeHeight + 380 + promptHeight + categoryHeight
        promptTop == codeStartY + codeHeight + 40 - 14
        categoryTop == codeStartY + codeHeight + (IF meta.prompt THEN 85 ELSE 40)
    IN  [sections |->
            << Section("code", codeStartY - 20, codeHeight, codeStartY - 20 + codeHeight) >>
            \o (IF meta.prompt
                THEN << Section("prompt", promptTop, promptHeight,
                                codeStartY + codeHeight + 65) >>
                ELSE <<>>)
            \o (IF meta.category
                THEN << Section("category", categoryTop, categoryHeight, categoryTop + 28) >>
                ELSE <<>>)
            \o << Section("footer", totalHeight - 120, 80, totalHeight - 120 + 80) >>,
         bars |-> <<>>,
         rawLines |-> 0,
         trailer |-> -1,
         totalHeight |-> totalHeight]

\* The fewest lines JSON.stringify(rawData, null, 2) has for n outcomes: the
\* braces of rawData and of results, and one line per measurement; the first
\* generateKrumpSVG adds decoded_moves, suggested_routine and average_energy.
MinRawLines(v, n) ==
    LET results == IF n = 0 THEN 1 ELSE n + 4
        moves(k) == IF k = 0 THEN 1 ELSE 2 + 4 * k
    IN  IF v = "krumpFirst"
        THEN 2 + results + moves(n) + moves(Min(n, RoutineLength)) + 1
        ELSE 2 + results

ChartEntries == [count : 0..MaxCount, probability : 0..MaxProb]

\* n outcomes measured once each, without probabilities.
UniformChart(n) == [i \in 1..n |-> [count |-> 1, probability |-> 0]]

InitLayout ==
    /\ \/ /\ layoutVariant \in LayoutVariants
          /\ chart \in SeqsUpTo(ChartEntries, MaxOutcomes)
          /\ rawLineCount = MinRawLines(layoutVariant, Len(chart))
          /\ codeLines = 0
          /\ metadata = NoMetadata
       \/ /\ layoutVariant \in LayoutVariants
          /\ chart \in {UniformChart(n) : n \in 0..MaxOutcomes}
          /\ rawLineCount \in MinRawLines(layoutVariant, Len(chart))..MaxRawLines
          /\ codeLines = 0
          /\ metadata = NoMetadata
       \/ /\ layoutVariant = "portrait"
          /\ chart = <<>>
          /\ rawLineCount = 0
          /\ codeLines \in 1..MaxCodeLines
          /\ metadata \in [prompt : BOOLEAN, category : BOOLEAN]
    /\ layout = NoLayout
    /\ DecodeIdle
    /\ EscapeIdle
    /\ RenderIdle
    /\ DownloadIdle
    /\ RelayIdle
    /\ RerunIdle
    /\ PollIdle
    /\ StreamIdle
    /\ QueueIdle

LayoutResults ==
    /\ layoutVariant = "results"
    /\ layout = NoLayout
    /\ layout' = ResultsLayout(SortByCount(chart), rawLineCount, 150, 145, 70, 70)
    /\ UNCHANGED <<layoutVariant, chart, rawLineCount, codeLines, metadata,
                   decodeVars, escapeVars, renderVars,
                   downloadVars, relayVars, rerunVars,
                   pollVars, streamVars, queueVars>>

LayoutResultsFirst ==
    /\ layoutVariant = "resultsFirst"
    /\ layout = NoLayout
    /\ layout' = ResultsLayout(SortByCount(chart), rawLineCount, 120, 90, 20, 0)
    /\ UNCHANGED <<layoutVariant, chart, rawLineCount, codeLines, metadata,
                   decodeVars, escapeVars, renderVars,
                   downloadVars, relayVars, rerunVars,
                   pollVars, streamVars, queueVars>>

LayoutKrump ==
    /\ layoutVariant = "krump"
    /\ layout = NoLayout
    /\ layout' = KrumpLayout(chart)
    /\ UNCHANGED <<layoutVariant, chart, rawLineCount, codeLines, metadata,
                   decodeVars, escapeVars, renderVars,
                   downloadVars, relayVars, rerunVars,
                   pollVars, streamVars, queueVars>>

LayoutKrumpFirst ==
    /\ layoutVariant = "krumpFirst"
    /\ layout = NoLayout
    /\ layout' = KrumpFirstLayout(chart, rawLineCount)
    /\ UNCHANGED <<layoutVariant, chart, rawLineCount, codeLines, metadata,
                   decodeVars, escapeVars, renderVars,
                   downloadVars, relayVars, rerunVars,
                   pollVars, streamVars, queueVars>>

\* generateCircuitPortraitSVG
LayoutPortrait ==
    /\ layoutVariant = "portrait"
    /\ layout = NoLayout
    /\ layout' = PortraitLayout(codeLines, metadata)
    /\ UNCHANGED <<layoutVariant, chart, rawLineCount, codeLines, metadata,
                   decodeVars, escapeVars, renderVars,
                   downloadVars, relayVars, rerunVars,
                   pollVars, streamVars, queueVars>>

NextLayout ==
    \/ LayoutResults \/ LayoutResultsFirst \/ LayoutKrump \/ LayoutKrumpFirst
    \/ LayoutPortrait

SpecLayout == InitLayout /\ [][NextLayout]_vars

-----------------------------------------------------------------------------
(* Properties of the layout *)

LaidOut == layout # NoLayout

\* C15 (as claimed): every generator with a raw-data section emits at most
\* RawLineCap raw-data lines, and a trailer with the number of lines left out
\* when there are more.
C15_RawLinesCapped ==
    (LaidOut /\ layoutVariant \in RawDataVariants) =>
        /\ layout.rawLines <= RawLineCap
        /\ rawLineCount <= RawLineCap => (layout.rawLines = rawLineCount /\ layout.trailer = -1)
        /\ rawLineCount > RawLineCap => layout.trailer = rawLineCount - RawLineCap

Bars(section) == {i \in DOMAIN layout.bars : layout.bars[i].section = section}

\* C16 (as claimed): in each chart section the width of every bar is a number
\* between 0 and the full bar width, and every bar of the section's largest
\* value has exactly the full bar width.
C16_BarsScaledToSectionMaximum ==
    LaidOut =>
        \A i \in DOMAIN layout.bars :
            LET bar == layout.bars[i]
            IN  /\ ~bar.width.nan
                /\ 0 <= bar.width.num
                /\ bar.width.num <= bar.full * bar.width.den
                /\ (\A j \in Bars(bar.section) : layout.bars[j].width.num <= bar.width.num)
                      => bar.width.num = bar.full * bar.width.den

\* C17 (as claimed): with no probabilities in the input (every probability
\* defaults to 0) the report is laid out and every numeric attribute written
\* into the document is a finite number.
C17_DefaultsGiveFiniteNumbers ==
    (LaidOut /\ \A i \in DOMAIN chart : chart[i].probability = 0) =>
        \A i \in DOMAIN layout.bars : ~layout.bars[i].width.nan

\* C18 (as claimed): in generateResultsSVG and generateKrumpSVG every section
\* starts at or below the lowest element of the section before it, and every
\* element lies within the total height of the document.
C18_SectionsDoNotOverlap ==
    (LaidOut /\ layoutVariant \in LayoutVariants) =>
        /\ \A i \in 1..(Len(layout.sections) - 1) :
              /\ layout.sections[i].top <= layout.sections[i + 1].top
              /\ layout.sections[i].bottom <= layout.sections[i + 1].top
        /\ \A i \in DOMAIN layout.sections : layout.sections[i].bottom <= layout.totalHeight

\* C24 (as claimed): in a circuit portrait the code box, the prompt block, the
\* category badge and the footer, as far as they are present, follow each
\* other in that order without overlapping, and all lie within totalHeight.
C24_PortraitSectionsDoNotOverlap ==
    (LaidOut /\ layoutVariant = "portrait") =>
        /\ \A i \in 1..(Len(layout.sections) - 1) :
              layout.sections[i].bottom <= layout.sections[i + 1].top
        /\ \A i \in DOMAIN layout.sections :
              /\ 0 <= layout.sections[i].top
              /\ layout.sections[i].top <= layout.sections[i].bottom
              /\ layout.sections[i].bottom <= layout.totalHeight

-----------------------------------------------------------------------------
(* The edge function execute-quantum-circuit.  A probability count / shots   *)
(* is held as the fraction [num |-> count, den |-> shots].                   *)

Fraction(n, d) == [num |-> n, den |-> d]

\* Mutant: the sample counts are not the Bell-state counts.
MockResults_Skewed(shotsOfRequest) ==
    [format |-> "dashboard",
     measurements |-> <<[key |-> "00", count |-> BellShots], [key |-> "11", count |-> 0]>>,
     probabilities |-> [k \in {"00", "11"} |-> Fraction(1, 2)],
     shots |-> shotsOfRequest]

\* const mockResults = { measurements: { '00': 512, '11': 512 },
\*   probabilities: { '00': 0.5, '11': 0.5 }, statevector: null, shots: shots }
MockResults(shotsOfRequest) ==
    [format |-> "dashboard",
     measurements |-> BellMeasurements,
     probabilities |-> [k \in {"00", "11"} |-> Fraction(1, 2)],
     shots |-> shotsOfRequest]

\* shot[key] ? '1' : '0'
Bit(b) == IF b THEN "1" ELSE "0"

RECURSIVE Join(_)
\* .join('')
Join(strs) == IF strs = <<>> THEN "" ELSE Head(strs) \o Join(Tail(strs))

\* The decimal digits of a qubit index: the characters of the key "m<i>"
\* after the letter m.
Digits(i) == IF i < 10 THEN <<i>> ELSE <<i \div 10, i % 10>>

RECURSIVE LexLess(_, _)
\* The comparison of Array.prototype.sort() without a comparator: the keys are
\* compared as strings, code unit by code unit.
LexLess(a, b) ==
    IF a = <<>> THEN b # <<>>
    ELSE IF b = <<>> THEN FALSE
    ELSE IF Head(a) # Head(b) THEN Head(a) < Head(b)
    ELSE LexLess(Tail(a), Tail(b))

\* Whether key m<i> comes before key m<j> in the sorted array.
KeyBefore(i, j) == LexLess(Digits(i), Digits(j))

RECURSIVE InsertKey(_, _)
InsertKey(sorted, i) ==
    IF sorted = <<>> THEN <<i>>
    ELSE IF KeyBefore(i, Head(sorted)) THEN <<i>> \o sorted
    ELSE <<Head(sorted)>> \o InsertKey(Tail(sorted), i)

RECURSIVE SortedKeysUpTo(_)
\* Object.keys(shot).filter(k => k.startsWith('m')).sort() of a shot with the
\* keys m0 .. m<n>: the qubit numbers in the order of the sorted keys.
SortedKeysUpTo(n) ==
    IF n < 0 THEN <<>> ELSE InsertKey(SortedKeysUpTo(n - 1), n)

\* measurementKeys of a shot, which is held as a function from the qubit
\* numbers 0 .. n-1 to the measured values.
MeasurementKeys(shot) == SortedKeysUpTo(Cardinality(DOMAIN shot) - 1)

\* measurementKeys.map(key => shot[key] ? '1' : '0').join('')
Bitstring(shot) ==
    LET keys == MeasurementKeys(shot)
    IN  Join([p \in DOMAIN keys |-> Bit(shot[keys[p]])])

\* measurements[bitstring] = (measurements[bitstring] || 0) + 1
CountShot(meas, bitstring) ==
    IF \E i \in DOMAIN meas : meas[i].key = bitstring
    THEN [i \in DOMAIN meas |->
             IF meas[i].key = bitstring
             THEN [key |-> bitstring, count |-> meas[i].count + 1] ELSE meas[i]]
    ELSE Append(meas, [key |-> bitstring, count |-> 1])

RECURSIVE CountShots(_)
\* for (const shot of seleneData.results) { ... }
CountShots(shotList) ==
    IF shotList = <<>> THEN <<>>
    ELSE CountShot(CountShots(SubSeq(shotList, 1, Len(shotList) - 1)),
                   Bitstring(shotList[Len(shotList)]))

\* transformSeleneResults(seleneData)
transformSeleneResults(seleneData) ==
    IF seleneData.format # "selene"
    THEN [format |-> "asIs", measurements |-> <<>>, probabilities |-> <<>>,
          shots |-> seleneData.shots]
    ELSE LET shotCount == IF seleneData.shots # 0 THEN seleneData.shots
                          ELSE Len(seleneData.results)
             meas == CountShots(seleneData.results)
         IN  [format |-> "dashboard",
              measurements |-> meas,
              probabilities |->
                  [k \in {meas[i].key : i \in DOMAIN meas} |->
                      Fraction((CHOOSE e \in {meas[i] : i \in DOMAIN meas} : e.key = k).count,
                               shotCount)],
              shots |-> shotCount]

\* The endpoint candidates, in the order of the array.
Candidates == <<"run", "api/run", "execute", "api/execute">>

\* The values of shots a request carries.
RequestShots == (1..MaxRequestShots) \cup {BellShots}

\* One shot of two measured qubits m0, m1.
ShotValues == [0..1 -> BOOLEAN]

\* One shot of a wide register m0 .. m<WideQubits-1> in which one qubit was
\* measured as 1.
OneHot(q) == [i \in 0..(WideQubits - 1) |-> i = q]

WideShotValues == {OneHot(q) : q \in 0..(WideQubits - 1)}

\* The JSON bodies the service may answer with.
ServiceBodies ==
    [format : {"selene"}, shots : 0..MaxServiceShots,
     results : SeqsUpTo(ShotValues, MaxServiceShots)]
    \cup {[format |-> "selene", shots |-> 1, results |-> <<s>>] : s \in WideShotValues}
    \cup {[format |-> "unexpected", shots |-> 0, results |-> <<>>]}

\* The two timers of the attempt on candidate i.
AbortTimer(i) == [candidate |-> i, kind |-> "timeout"]

ProgressInterval(i) == [candidate |-> i, kind |-> "interval"]

InitRelay ==
    /\ serviceUrl \in {"unset", "set"}
    /\ requestShots \in RequestShots
    /\ job = NoJob
    /\ relayPc = "start"
    /\ candidateIndex = 0
    /\ attemptedEndpoints = <<>>
    /\ timers = {}
    /\ serviceCalls = <<>>
    /\ serviceData = NoData
    /\ reply = NoReply
    /\ DecodeIdle
    /\ EscapeIdle
    /\ RenderIdle
    /\ DownloadIdle
    /\ LayoutIdle
    /\ RerunIdle
    /\ PollIdle
    /\ StreamIdle
    /\ QueueIdle

\* if (!user) throw new Error('Unauthorized'), or the insert of the job row
\* fails: the catch block answers 500 and no row exists.
RejectBeforeJob ==
    /\ relayPc = "start"
    /\ reply' = [status |-> 500, results |-> NoResults]
    /\ relayPc' = "done"
    /\ UNCHANGED <<serviceUrl, requestShots, job, candidateIndex, attemptedEndpoints,
                   timers, serviceCalls, serviceData, decodeVars, escapeVars, renderVars,
                   downloadVars, layoutVars, rerunVars,
                   pollVars, streamVars, queueVars>>

\* insert({ ..., shots, status: 'running' })
CreateJob ==
    /\ relayPc = "start"
    /\ job' = [status |-> "running", results |-> NoResults]
    /\ relayPc' = "created"
    /\ UNCHANGED <<serviceUrl, requestShots, candidateIndex, attemptedEndpoints,
                   timers, serviceCalls, serviceData, reply, decodeVars, escapeVars,
                   renderVars, downloadVars, layoutVars, rerunVars,
                   pollVars, streamVars, queueVars>>

\* if (!quantumServiceUrl) { ... }: the row is updated with the sample results
\* and they are returned.
ReturnMock ==
    /\ relayPc = "created"
    /\ serviceUrl = "unset"
    /\ job' = [status |-> "completed", results |-> MockResults(requestShots)]
    /\ reply' = [status |-> 200, results |-> MockResults(requestShots)]
    /\ relayPc' = "done"
    /\ UNCHANGED <<serviceUrl, requestShots, candidateIndex, attemptedEndpoints,
                   timers, serviceCalls, serviceData, decodeVars, escapeVars, renderVars,
                   downloadVars, layoutVars, rerunVars,
                   pollVars, streamVars, queueVars>>

\* The loop over the candidates is entered.
StartCandidates ==
    /\ relayPc = "created"
    /\ serviceUrl = "set"
    /\ candidateIndex' = 1
    /\ relayPc' = "attempt"
    /\ UNCHANGED <<serviceUrl, requestShots, job, attemptedEndpoints, timers, serviceCalls,
                   serviceData, reply, decodeVars, escapeVars, renderVars,
                   downloadVars, layoutVars, rerunVars,
                   pollVars, streamVars, queueVars>>

\* setTimeout(() => controller.abort(), 300000); setInterval(..., 30000);
\* fetch(endpoint, ...): both timers are armed and the request is sent.
BeginAttempt ==
    /\ relayPc = "attempt"
    /\ timers' = timers \cup {AbortTimer(candidateIndex), ProgressInterval(candidateIndex)}
    /\ serviceCalls' = Append(serviceCalls,
           [path |-> Candidates[candidateIndex], outcome |-> "pending"])
    /\ relayPc' = "fetching"
    /\ UNCHANGED <<serviceUrl, requestShots, job, candidateIndex, attemptedEndpoints,
                   serviceData, reply, decodeVars, escapeVars, renderVars,
                   downloadVars, layoutVars, rerunVars,
                   pollVars, streamVars, queueVars>>

\* The outcome of the request in flight, as the service saw it.
Settle(outcome) ==
    [serviceCalls EXCEPT ![Len(serviceCalls)].outcome = outcome]

\* clearTimeout(timeoutId); clearInterval(progressInterval)
ClearTimers(armed, i) == armed \ {AbortTimer(i), ProgressInterval(i)}

\* Mutant: the loop is left one candidate early.
AfterFailedAttempt_LeavesEarly ==
    IF candidateIndex >= Len(Candidates) - 1
    THEN relayPc' = "allFailed" /\ candidateIndex' = candidateIndex
    ELSE relayPc' = "attempt" /\ candidateIndex' = candidateIndex + 1

\* After a failed attempt: continue with the next candidate, or leave the loop.
AfterFailedAttempt ==
    IF candidateIndex = Len(Candidates)
    THEN relayPc' = "allFailed" /\ candidateIndex' = candidateIndex
    ELSE relayPc' = "attempt" /\ candidateIndex' = candidateIndex + 1

\* response = await fetch(endpoint, ...); the timers are cleared;
\* if (response.ok) break
AttemptOk ==
    /\ relayPc = "fetching"
    /\ timers' = ClearTimers(timers, candidateIndex)
    /\ serviceCalls' = Settle("ok")
    /\ relayPc' = "respond"
    /\ UNCHANGED <<serviceUrl, requestShots, job, candidateIndex, attemptedEndpoints,
                   serviceData, reply, decodeVars, escapeVars, renderVars,
                   downloadVars, layoutVars, rerunVars,
                   pollVars, streamVars, queueVars>>

\* The response is not ok: the timers are cleared, the attempt is recorded
\* (with the status of the response, or with status 0 when reading its text
\* throws) and the loop continues.
AttemptNotOk ==
    /\ relayPc = "fetching"
    /\ timers' = ClearTimers(timers, candidateIndex)
    /\ serviceCalls' = Settle("notOk")
    /\ \E status \in {404, 500, 0} :
          attemptedEndpoints' = Append(attemptedEndpoints,
              [endpoint |-> Candidates[candidateIndex], status |-> status])
    /\ AfterFailedAttempt
    /\ UNCHANGED <<serviceUrl, requestShots, job, serviceData, reply,
                   decodeVars, escapeVars, renderVars, downloadVars, layoutVars, rerunVars,
                   pollVars, streamVars, queueVars>>

\* fetch rejects with a network error: the catch block records the attempt
\* with status 0 and continues; it clears no timer.
AttemptThrows ==
    /\ relayPc = "fetching"
    /\ serviceCalls' = Settle("threw")
    /\ attemptedEndpoints' = Append(attemptedEndpoints,
           [endpoint |-> Candidates[candidateIndex], status |-> 0])
    /\ AfterFailedAttempt
    /\ UNCHANGED <<serviceUrl, requestShots, job, timers, serviceData, reply,
                   decodeVars, escapeVars, renderVars, downloadVars, layoutVars, rerunVars,
                   pollVars, streamVars, queueVars>>

\* The abort timer fires after 5 minutes: controller.abort() makes fetch
\* reject, the catch block records the attempt with status 0 and continues.
\* The timeout has run; the interval is not cleared.
AttemptAborted ==
    /\ relayPc = "fetching"
    /\ timers' = timers \ {AbortTimer(candidateIndex)}
    /\ serviceCalls' = Settle("aborted")
    /\ attemptedEndpoints' = Append(attemptedEndpoints,
           [endpoint |-> Candidates[candidateIndex], status |-> 0])
    /\ AfterFailedAttempt
    /\ UNCHANGED <<serviceUrl, requestShots, job, serviceData, reply,
                   decodeVars, escapeVars, renderVars, downloadVars, layoutVars, rerunVars,
                   pollVars, streamVars, queueVars>>

\* if (!response || !response.ok): the row is marked failed, the answer is 503
\* and carries attempted_endpoints.
AllEndpointsFailed ==
    /\ relayPc = "allFailed"
    /\ job' = [status |-> "failed", results |-> NoResults]
    /\ reply' = [status |-> 503, results |-> NoResults]
    /\ relayPc' = "done"
    /\ UNCHANGED <<serviceUrl, requestShots, candidateIndex, attemptedEndpoints,
                   timers, serviceCalls, serviceData, decodeVars, escapeVars, renderVars,
                   downloadVars, layoutVars, rerunVars,
                   pollVars, streamVars, queueVars>>

\* const results = await response.json(); the transformed results are written
\* to the row and returned.
StoreResults ==
    /\ relayPc = "respond"
    /\ \E body \in ServiceBodies :
          /\ serviceData' = body
          /\ job' = [status |-> "completed", results |-> transformSeleneResults(body)]
          /\ reply' = [status |-> 200, results |-> transformSeleneResults(body)]
    /\ relayPc' = "done"
    /\ UNCHANGED <<serviceUrl, requestShots, candidateIndex, attemptedEndpoints,
                   timers, serviceCalls, decodeVars, escapeVars, renderVars,
                   downloadVars, layoutVars, rerunVars,
                   pollVars, streamVars, queueVars>>

\* response.json() throws on a body that is not JSON: the catch block answers
\* 500; the row is not written.
ResponseJsonFails ==
    /\ relayPc = "respond"
    /\ reply' = [status |-> 500, results |-> NoResults]
    /\ relayPc' = "done"
    /\ UNCHANGED <<serviceUrl, requestShots, job, candidateIndex, attemptedEndpoints,
                   timers, serviceCalls, serviceData, decodeVars, escapeVars, renderVars,
                   downloadVars, layoutVars, rerunVars,
                   pollVars, streamVars, queueVars>>

NextRelay ==
    \/ RejectBeforeJob \/ CreateJob
    \/ ReturnMock \/ StartCandidates
    \/ BeginAttempt
    \/ AttemptOk \/ AttemptNotOk \/ AttemptThrows \/ AttemptAborted
    \/ AllEndpointsFailed
    \/ StoreResults \/ ResponseJsonFails

SpecRelay == InitRelay /\ [][NextRelay]_vars

-----------------------------------------------------------------------------
(* Properties of the edge function *)

RECURSIVE SumOfCounts(_)
SumOfCounts(meas) ==
    IF meas = <<>> THEN 0 ELSE Head(meas).count + SumOfCounts(Tail(meas))

RECURSIVE SumOfNumerators(_, _)
SumOfNumerators(probs, keys) ==
    IF keys = {} THEN 0
    ELSE LET k == CHOOSE x \in keys : TRUE
         IN  probs[k].num + SumOfNumerators(probs, keys \ {k})

\* The probabilities of a result set, which share their denominator, sum to 1.
ProbabilitiesSumToOne(probs) ==
    /\ DOMAIN probs # {}
    /\ \E d \in {probs[k].den : k \in DOMAIN probs} :
          /\ \A k \in DOMAIN probs : probs[k].den = d
          /\ SumOfNumerators(probs, DOMAIN probs) = d

\* C19 (as claimed): in every result set the function returns (the sample
\* results and every result of transformSeleneResults) the counts sum to
\* shots and the probabilities sum to 1.
C19_CountsSumToShots ==
    (relayPc = "done" /\ reply.results.format = "dashboard") =>
        /\ SumOfCounts(reply.results.measurements) = reply.results.shots
        /\ ProbabilitiesSumToOne(reply.results.probabilities)

C21_OutcomeWrittenBack ==
    (relayPc = "done" /\ job.status # "none") => job.status \in {"completed", "failed"}

\* The bitstring in which bit i (counted from the left, from 0) is the
\* measured value of qubit i.
QubitOrderBitstring(shot) ==
    Join([p \in 1..Cardinality(DOMAIN shot) |-> Bit(shot[p - 1])])

\* C25 (as claimed): the keys of the measurement map transformSeleneResults
\* returns are the bitstrings of the shots in qubit order (bit i is the value
\* of key m<i>), for registers of any width.
C25_BitIsQubit ==
    (relayPc = "done" /\ serviceData.format = "selene") =>
        {reply.results.measurements[i].key : i \in DOMAIN reply.results.measurements}
            = {QubitOrderBitstring(serviceData.results[j]) : j \in DOMAIN serviceData.results}

\* The requests the service has received, as their paths.
CalledPaths == [i \in DOMAIN serviceCalls |-> serviceCalls[i].path]

\* C26: the candidates are requested in the order run, api/run, execute,
\* api/execute; no candidate is requested after one returned ok; the job is
\* marked failed and 503 is answered only after all four were requested and
\* none returned ok, with one attempted-endpoint entry per candidate.
C26_CandidatesInOrder ==
    /\ Len(serviceCalls) <= Len(Candidates)
    /\ CalledPaths = SubSeq(Candidates, 1, Len(serviceCalls))
    /\ \A i \in DOMAIN serviceCalls :
          serviceCalls[i].outcome = "ok" => i = Len(serviceCalls)
    /\ (job.status = "failed" \/ reply.status = 503) =>
          /\ job.status = "failed" /\ reply.status = 503
          /\ CalledPaths = Candidates
          /\ \A i \in DOMAIN serviceCalls :
                serviceCalls[i].outcome \in {"notOk", "threw", "aborted"}
          /\ [i \in DOMAIN attemptedEndpoints |-> attemptedEndpoints[i].endpoint] = Candidates

\* All four candidates failed and the function has answered 503.
C26_Witness ==
    /\ relayPc = "done"
    /\ reply.status = 503
    /\ Len(attemptedEndpoints) = 4

\* The third candidate returned ok after two failures and the function has
\* answered without requesting the fourth.
C26_WitnessStopsAtOk ==
    /\ relayPc = "done"
    /\ reply.status = 200
    /\ Len(serviceCalls) = 3
    /\ serviceCalls[3].outcome = "ok"

\* C27 (as claimed): when an attempt has finished (the next attempt is about
\* to start, or the loop is left, or the function has returned) no abort
\* timer and no progress interval is armed.
C27_TimersCleared ==
    relayPc \in {"attempt", "allFailed", "respond", "done"} => timers = {}

-----------------------------------------------------------------------------
(* The Dashboard: handleExecute submits a job through the edge function and  *)
(* pollJobStatus polls the row of the job.  Times are in milliseconds.       *)

\* const maxPollingTime = 5 * 60 * 1000
MaxPollingTime == 300000

\* const pollInterval = 2000
PollInterval == 2000

\* The times a status query may take.
Latencies == {k * 1000 : k \in 0..MaxLatencySeconds}

\* Mutant: no time passes between two polls.
AfterInterval_NoTime(e) == e

\* setTimeout(poll, pollInterval): Date.now() - startTime when poll runs again.
AfterInterval(e) == e + PollInterval

\* Date.now() - startTime > maxPollingTime
TimedOut(e) == e > MaxPollingTime

InitPoll ==
    /\ executing = FALSE
    /\ pollingJobId = "null"
    /\ dashPc = "idle"
    /\ elapsed = 0
    /\ rowStatus = "none"
    /\ pollTimer = FALSE
    /\ dashToast = "none"
    /\ submissions = 0
    /\ DecodeIdle
    /\ EscapeIdle
    /\ RenderIdle
    /\ DownloadIdle
    /\ LayoutIdle
    /\ RelayIdle
    /\ RerunIdle
    /\ StreamIdle
    /\ QueueIdle

\* handleExecute with code: the button is enabled only while executing is
\* false; setExecuting(true) and the function is invoked.
HandleExecute ==
    /\ dashPc = "idle"
    /\ ~executing
    /\ submissions < MaxSubmissions
    /\ executing' = TRUE
    /\ submissions' = submissions + 1
    /\ dashPc' = "invoking"
    /\ UNCHANGED <<pollingJobId, elapsed, rowStatus, pollTimer, dashToast,
                   decodeVars, escapeVars, renderVars, downloadVars, layoutVars, relayVars,
                   rerunVars, streamVars, queueVars>>

\* if (error) throw error: the catch block resets executing.
InvokeFails ==
    /\ dashPc = "invoking"
    /\ executing' = FALSE
    /\ dashToast' = "Execution failed"
    /\ dashPc' = "idle"
    /\ UNCHANGED <<pollingJobId, elapsed, rowStatus, pollTimer, submissions,
                   decodeVars, escapeVars, renderVars, downloadVars, layoutVars, relayVars,
                   rerunVars, streamVars, queueVars>>

\* The function answered with a job id: setPollingJobId(jobId), toast,
\* pollJobStatus(jobId) takes startTime and starts the first query.  The row
\* holds whatever status the function left in it.
InvokeReturns ==
    /\ dashPc = "invoking"
    /\ pollingJobId' = "job"
    /\ dashToast' = "Job submitted"
    /\ elapsed' = 0
    /\ rowStatus' \in {"running", "completed", "failed"}
    /\ dashPc' = "querying"
    /\ UNCHANGED <<executing, pollTimer, submissions,
                   decodeVars, escapeVars, renderVars, downloadVars, layoutVars, relayVars,
                   rerunVars, streamVars, queueVars>>

\* The status query answers with an error: polling stops.
QueryErrors ==
    /\ dashPc = "querying"
    /\ \E latency \in Latencies : elapsed' = elapsed + latency
    /\ executing' = FALSE
    /\ pollingJobId' = "null"
    /\ dashToast' = "Error checking job status"
    /\ dashPc' = "idle"
    /\ UNCHANGED <<rowStatus, pollTimer, submissions,
                   decodeVars, escapeVars, renderVars, downloadVars, layoutVars, relayVars,
                   rerunVars, streamVars, queueVars>>

\* The status query answers with the row: the four branches of poll.
QueryAnswers ==
    /\ dashPc = "querying"
    /\ \E latency \in Latencies :
          /\ elapsed' = elapsed + latency
          /\ IF rowStatus = "completed" \/ rowStatus = "failed" \/ TimedOut(elapsed + latency)
             THEN /\ executing' = FALSE
                  /\ pollingJobId' = "null"
                  /\ dashToast' = IF rowStatus = "completed" THEN "Execution completed!"
                                  ELSE IF rowStatus = "failed" THEN "Execution failed"
                                  ELSE "Execution timeout"
                  /\ pollTimer' = pollTimer
                  /\ dashPc' = "idle"
             ELSE /\ pollTimer' = TRUE
                  /\ dashPc' = "waiting"
                  /\ UNCHANGED <<executing, pollingJobId, dashToast>>
    /\ UNCHANGED <<rowStatus, submissions,
                   decodeVars, escapeVars, renderVars, downloadVars, layoutVars, relayVars,
                   rerunVars, streamVars, queueVars>>

\* The timer fires: poll runs again and starts the next query.
TimerFires ==
    /\ dashPc = "waiting"
    /\ pollTimer
    /\ pollTimer' = FALSE
    /\ elapsed' = AfterInterval(elapsed)
    /\ dashPc' = "querying"
    /\ UNCHANGED <<executing, pollingJobId, rowStatus, dashToast, submissions,
                   decodeVars, escapeVars, renderVars, downloadVars, layoutVars, relayVars,
                   rerunVars, streamVars, queueVars>>

NextPoll ==
    \/ HandleExecute \/ InvokeFails \/ InvokeReturns
    \/ QueryErrors \/ QueryAnswers \/ TimerFires

\* The event loop runs a timer that is due, and a status query settles: the
\* client resolves it with the row or with an error.
SpecPoll ==
    /\ InitPoll
    /\ [][NextPoll]_vars
    /\ WF_vars(TimerFires)
    /\ WF_vars(QueryAnswers \/ QueryErrors)

\* C28: once a job is submitted and polled, executing returns to false; and
\* whenever executing is false no status query is in flight and no poll is
\* scheduled.
C28_PollingEnds ==
    /\ (executing /\ pollingJobId = "job") ~> ~executing
    /\ [](~executing => (dashPc = "idle" /\ ~pollTimer))

\* Polling of a job that stayed 'running' has ended by the timeout.
C28_Witness ==
    /\ ~executing
    /\ rowStatus = "running"
    /\ dashToast = "Execution timeout"
    /\ TimedOut(elapsed)

-----------------------------------------------------------------------------
(* streamChat: the reader of the event stream of the assistant.  The body is *)
(* a sequence of lines; the text is held as a sequence of tokens, two for    *)
(* the halves of each line and one for each newline, so that a read may end  *)
(* in the middle of a line.                                                  *)

\* The lines a body is made of:
\*   delta    data: {"choices":[{"delta":{"content":"<content>"}}]}
\*   done     data: [DONE]
\*   comment  : keep-alive
\*   invalid  data: followed by text that is not JSON
SseLineValues ==
    {[kind |-> "delta", content |-> c] : c \in {"a", "b"}}
    \cup {[kind |-> k, content |-> ""] : k \in {"done", "comment", "invalid"}}

Newline == [line |-> [kind |-> "newline", content |-> ""], half |-> 0]

Half(l, h) == [line |-> l, half |-> h]

RECURSIVE BodyTokens(_, _)
\* The text of the body.
BodyTokens(lines, terminated) ==
    IF lines = <<>> THEN <<>>
    ELSE <<Half(Head(lines), 1), Half(Head(lines), 2)>>
         \o (IF Len(lines) > 1 \/ terminated THEN <<Newline>> ELSE <<>>)
         \o BodyTokens(Tail(lines), terminated)

\* textBuffer.indexOf("\n"), 1-based; 0 when there is none.
IndexOfNewline(buffer) ==
    IF \E i \in DOMAIN buffer : buffer[i] = Newline
    THEN CHOOSE i \in DOMAIN buffer :
             buffer[i] = Newline /\ \A j \in 1..(i - 1) : buffer[j] # Newline
    ELSE 0

\* What the parser makes of the text of one line:
\*   "skip"   a comment, a blank line, or a line not starting with "data: "
\*   "done"   the payload is [DONE]
\*   "delta"  the payload parses and holds a content
\*   "throw"  JSON.parse throws (text that is not JSON, or a line cut short)
LineClass(raw) ==
    IF raw = <<>> THEN "skip"
    ELSE IF raw[1].half # 1 \/ raw[1].line.kind = "comment" THEN "skip"
    ELSE IF Len(raw) = 2 /\ raw[2] = Half(raw[1].line, 2)
         THEN CASE raw[1].line.kind = "delta" -> "delta"
                [] raw[1].line.kind = "done" -> "done"
                [] OTHER -> "throw"
         ELSE "throw"

RECURSIVE ProcessBuffer(_, _)
\* The inner loop: while ((newlineIndex = textBuffer.indexOf("\n")) !== -1)
ProcessBuffer(buffer, delivered) ==
    LET newlineIndex == IndexOfNewline(buffer)
        line == SubSeq(buffer, 1, newlineIndex - 1)
        rest == SubSeq(buffer, newlineIndex + 1, Len(buffer))
        class == LineClass(line)
    IN  IF newlineIndex = 0
        THEN [textBuffer |-> buffer, deltas |-> delivered, streamDone |-> FALSE]
        ELSE CASE class = "skip" -> ProcessBuffer(rest, delivered)
               [] class = "done" ->
                    [textBuffer |-> rest, deltas |-> delivered, streamDone |-> TRUE]
               [] class = "delta" ->
                    ProcessBuffer(rest, Append(delivered, line[1].line.content))
               [] class = "throw" ->
                    [textBuffer |-> line \o <<Newline>> \o rest, deltas |-> delivered,
                     streamDone |-> FALSE]

RECURSIVE SplitLines(_)
\* textBuffer.split("\n")
SplitLines(buffer) ==
    LET newlineIndex == IndexOfNewline(buffer)
    IN  IF newlineIndex = 0 THEN <<buffer>>
        ELSE <<SubSeq(buffer, 1, newlineIndex - 1)>>
             \o SplitLines(SubSeq(buffer, newlineIndex + 1, Len(buffer)))

\* One round of the loop of the final flush: [DONE] and lines that do not
\* parse are passed over.
FlushLine(raw, delivered) ==
    IF LineClass(raw) = "delta" THEN Append(delivered, raw[1].line.content) ELSE delivered

RECURSIVE FlushLines(_, _)
FlushLines(raws, delivered) ==
    IF raws = <<>> THEN delivered
    ELSE FlushLines(Tail(raws), FlushLine(Head(raws), delivered))

\* if (textBuffer.trim()) { for (let raw of textBuffer.split("\n")) ... }
FinalFlush(buffer, delivered) ==
    IF \A i \in DOMAIN buffer : buffer[i] = Newline THEN delivered
    ELSE FlushLines(SplitLines(buffer), delivered)

InitStream ==
    /\ sseLines \in SeqsUpTo(SseLineValues, MaxSseLines)
    /\ sseTerminated \in BOOLEAN
    /\ readPos = 0
    /\ textBuffer = <<>>
    /\ deltas = <<>>
    /\ streamPc = "start"
    /\ isStreaming = FALSE
    /\ DecodeIdle
    /\ EscapeIdle
    /\ RenderIdle
    /\ DownloadIdle
    /\ LayoutIdle
    /\ RelayIdle
    /\ RerunIdle
    /\ PollIdle
    /\ QueueIdle

\* setIsStreaming(true); the session is there and the response is ok:
\* const reader = response.body.getReader()
OpenStream ==
    /\ streamPc = "start"
    /\ isStreaming' = TRUE
    /\ streamPc' = "reading"
    /\ UNCHANGED <<sseLines, sseTerminated, readPos, textBuffer, deltas,
                   decodeVars, escapeVars, renderVars, downloadVars, layoutVars, relayVars,
                   rerunVars, pollVars, queueVars>>

\* No session, a response that is not ok, or no body: onError, and the finally
\* block resets isStreaming.
StreamRefused ==
    /\ streamPc = "start"
    /\ isStreaming' = FALSE
    /\ streamPc' = "error"
    /\ UNCHANGED <<sseLines, sseTerminated, readPos, textBuffer, deltas,
                   decodeVars, escapeVars, renderVars, downloadVars, layoutVars, relayVars,
                   rerunVars, pollVars, queueVars>>

\* reader.read() returns a chunk of any size: it is appended to textBuffer and
\* the complete lines are processed.
ReadChunk ==
    /\ streamPc = "reading"
    /\ LET body == BodyTokens(sseLines, sseTerminated)
       IN  \E size \in 1..(Len(body) - readPos) :
              LET after == ProcessBuffer(textBuffer \o SubSeq(body, readPos + 1, readPos + size),
                                         deltas)
              IN  /\ readPos' = readPos + size
                  /\ textBuffer' = after.textBuffer
                  /\ deltas' = after.deltas
                  /\ streamPc' = IF after.streamDone THEN "flush" ELSE "reading"
    /\ UNCHANGED <<sseLines, sseTerminated, isStreaming,
                   decodeVars, escapeVars, renderVars, downloadVars, layoutVars, relayVars,
                   rerunVars, pollVars, queueVars>>

\* reader.read() returns done: if (done) break
ReadDone ==
    /\ streamPc = "reading"
    /\ readPos = Len(BodyTokens(sseLines, sseTerminated))
    /\ streamPc' = "flush"
    /\ UNCHANGED <<sseLines, sseTerminated, readPos, textBuffer, deltas, isStreaming,
                   decodeVars, escapeVars, renderVars, downloadVars, layoutVars, relayVars,
                   rerunVars, pollVars, queueVars>>

\* reader.read() rejects: onError, and the finally block resets isStreaming.
ReadFails ==
    /\ streamPc = "reading"
    /\ isStreaming' = FALSE
    /\ streamPc' = "error"
    /\ UNCHANGED <<sseLines, sseTerminated, readPos, textBuffer, deltas,
                   decodeVars, escapeVars, renderVars, downloadVars, layoutVars, relayVars,
                   rerunVars, pollVars, queueVars>>

\* The final flush, onDone(), and the finally block.
FlushAndFinish ==
    /\ streamPc = "flush"
    /\ deltas' = FinalFlush(textBuffer, deltas)
    /\ isStreaming' = FALSE
    /\ streamPc' = "done"
    /\ UNCHANGED <<sseLines, sseTerminated, readPos, textBuffer,
                   decodeVars, escapeVars, renderVars, downloadVars, layoutVars, relayVars,
                   rerunVars, pollVars, queueVars>>

NextStream ==
    \/ OpenStream \/ StreamRefused
    \/ ReadChunk \/ ReadDone \/ ReadFails
    \/ FlushAndFinish

SpecStream == InitStream /\ [][NextStream]_vars

RECURSIVE DeltasBeforeDone(_)
\* The contents of the delta lines that precede the first [DONE] line.
DeltasBeforeDone(lines) ==
    IF lines = <<>> \/ Head(lines).kind = "done" THEN <<>>
    ELSE (IF Head(lines).kind = "delta" THEN <<Head(lines).content>> ELSE <<>>)
         \o DeltasBeforeDone(Tail(lines))

\* C29 (as claimed): when streamChat has called onDone, the texts it passed to
\* onDelta are the contents of the delta lines before [DONE], once each and
\* in order, however the body was split into chunks.
C29_DeltasIndependentOfChunks ==
    streamPc = "done" => deltas = DeltasBeforeDone(sseLines)

-----------------------------------------------------------------------------
(* The job queue: handleDownloadJob may be called again while earlier calls  *)
(* still await the row of their job.                                         *)

\* The completed jobs the queue shows.
QueueJobs == 1..MaxQueueJobs

\* disabled={downloadingJobId === job.id}
ButtonDisabled(j) == downloadingJobId = j

InitQueue ==
    /\ downloadingJobId = NullJobId
    /\ inFlight = [j \in QueueJobs |-> 0]
    /\ queueToast = "none"
    /\ DecodeIdle
    /\ EscapeIdle
    /\ RenderIdle
    /\ DownloadIdle
    /\ LayoutIdle
    /\ RelayIdle
    /\ RerunIdle
    /\ PollIdle
    /\ StreamIdle

\* A click on the enabled button of job j: setDownloadingJobId(jobId), and the
\* query of the row is awaited.
StartDownload ==
    \E j \in QueueJobs :
        /\ ~ButtonDisabled(j)
        /\ inFlight[j] < MaxInFlight
        /\ downloadingJobId' = j
        /\ inFlight' = [inFlight EXCEPT ![j] = @ + 1]
        /\ UNCHANGED <<queueToast,
                       decodeVars, escapeVars, renderVars, downloadVars, layoutVars,
                       relayVars, rerunVars, pollVars, streamVars>>

\* The query of a call for job j answers with the results: the file is handed
\* to the browser, the success toast is shown, and the finally block runs.
FinishDownload ==
    \E j \in QueueJobs :
        /\ inFlight[j] > 0
        /\ inFlight' = [inFlight EXCEPT ![j] = @ - 1]
        /\ queueToast' = "Success"
        /\ downloadingJobId' = NullJobId
        /\ UNCHANGED <<decodeVars, escapeVars, renderVars, downloadVars, layoutVars,
                       relayVars, rerunVars, pollVars, streamVars>>

\* The query of a call for job j fails or has no results: the catch block
\* shows the error toast, and the finally block runs.
FailDownload ==
    \E j \in QueueJobs :
        /\ inFlight[j] > 0
        /\ inFlight' = [inFlight EXCEPT ![j] = @ - 1]
        /\ queueToast' = "Error"
        /\ downloadingJobId' = NullJobId
        /\ UNCHANGED <<decodeVars, escapeVars, renderVars, downloadVars, layoutVars,
                       relayVars, rerunVars, pollVars, streamVars>>

NextQueue == StartDownload \/ FinishDownload \/ FailDownload

SpecQueue == InitQueue /\ [][NextQueue]_vars

\* C30 (as claimed): the button of every job with a download that has not
\* finished is disabled, and when no download is in progress every button is
\* enabled.
C30_ButtonDisabledWhileDownloading ==
    /\ \A j \in QueueJobs : inFlight[j] > 0 => ButtonDisabled(j)
    /\ (\A j \in QueueJobs : inFlight[j] = 0) => \A j \in QueueJobs : ~ButtonDisabled(j)

=============================================================================
